---- MODULE Spec2Model ----
(***************************************************************************)
(* Secure credential / session subsystem of librelink-mcp-server:          *)
(* SecureStorage (master key, AES-256-GCM records, credential and token    *)
(* vault, legacy migration), ConfigManager (config.json) and the session   *)
(* state machine of LibreLinkClient.                                       *)
(***************************************************************************)
EXTENDS Integers, Sequences, FiniteSets, TLC

VARIABLES
    kcKey,          \* keytar entry (SERVICE_NAME, 'encryption-key'): hex string or none
    kcAuth,         \* keytar entry (SERVICE_NAME, 'auth-token'): accountId or none
    encryptionKey,  \* SecureStorage.encryptionKey of the running process
    credFile,       \* <configDir>/credentials.enc
    tokenFile,      \* <configDir>/token.enc
    cfgFile,        \* <configDir>/config.json
    legFile,        \* ~/.librelink-mcp/config.json
    now,            \* Date.now()
    cmConfig,       \* ConfigManager.config
    cachedCredentials, \* ConfigManager.cachedCredentials
    mig,            \* position of the running migrateFromLegacy() call
    client,         \* LibreLinkClient fields
    call,           \* the data call in progress and the request in flight
    lastAct,        \* the operation that ran last
    res,            \* what that operation returned or threw
    fresh,          \* the value saved last while nothing but reads / restarts followed
    keyCalls,       \* the getEncryptionKey() calls in progress, each at its await
    authCalls,      \* the ensureAuthenticated() calls in progress, each at its await
    detached        \* a replaced LibreLinkClient whose data call is still in flight

vars == <<kcKey, kcAuth, encryptionKey, credFile, tokenFile, cfgFile, legFile, now,
          cmConfig, cachedCredentials, mig, client, call, lastAct, res, fresh, keyCalls,
          authCalls, detached>>

storeVars == <<kcKey, kcAuth, encryptionKey, credFile, tokenFile>>
cfgVars == <<cfgFile, legFile, cmConfig, cachedCredentials, mig>>
sessVars == <<client, call, authCalls, detached>>

----------------------------------------------------------------------------
(* Bounds and program constants                                            *)

MaxKeys == 4            \* distinct master keys the model tells apart
MaxSalt == 5            \* distinct random salts the model tells apart
MaxIv == 5              \* distinct initialisation vectors the model tells apart
MaxKeyCalls == 2        \* getEncryptionKey() calls that may be in progress together
MaxLoginReqs == 3       \* login requests one data call may issue in the model
MaxDataReqs == 3        \* data requests one data call may issue in the model
T0 == 1000000           \* the model's first instant (ms)

EXPIRY_BUFFER == 300000
DEFAULT_TARGET_LOW == 70
DEFAULT_TARGET_HIGH == 180

Keys == 1..MaxKeys
Salts == 1..MaxSalt
IVs == 1..MaxIv
NoKey == 0

Null == [kind |-> "null"]
Absent == [kind |-> "absent"]
Garbage == [kind |-> "garbage"]

CredPairs == {[email |-> "a@b.com", password |-> "p@ss1"],
              [email |-> "c@d.com", password |-> "p@ss2"]}

\* instants the clock visits and expiry stamps (ms) around the 5 minute buffer
Instants == {T0, T0 + 1}
ExpiresSet == {T0 - 1, T0 + 240000, T0 + EXPIRY_BUFFER, T0 + EXPIRY_BUFFER + 1,
               T0 + EXPIRY_BUFFER + 2}

\* what the platform and the disk do during one operation (TRUE = the call throws)
EnvOk == [kcGet |-> FALSE, kcSet |-> FALSE, kcDel |-> FALSE, disk |-> FALSE]
Envs == {EnvOk, [EnvOk EXCEPT !.kcGet = TRUE], [EnvOk EXCEPT !.kcSet = TRUE],
         [EnvOk EXCEPT !.kcGet = TRUE, !.kcSet = TRUE],
         [EnvOk EXCEPT !.kcDel = TRUE], [EnvOk EXCEPT !.disk = TRUE]}
\* the environments that differ for an operation that only reads the key,
\* that also writes a file, and that only deletes
EnvsRead == {e \in Envs : ~e.kcDel /\ ~e.disk}
EnvsWrite == {e \in Envs : ~e.kcDel}
EnvsDel == {e \in Envs : ~e.kcGet /\ ~e.kcSet /\ ~e.disk}
EnvsReadDel == {e \in Envs : ~e.disk}
EnvsMigrate == {EnvOk, [EnvOk EXCEPT !.kcSet = TRUE], [EnvOk EXCEPT !.disk = TRUE]}

----------------------------------------------------------------------------
(* JSON objects: functions from keys to values                             *)

Has(o, k) == k \in DOMAIN o
Delete(o, k) == [x \in (DOMAIN o) \ {k} |-> o[x]]
Merge(a, b) == [x \in (DOMAIN a) \cup (DOMAIN b) |-> IF x \in DOMAIN b THEN b[x] ELSE a[x]]

\* JSON.stringify of an object: its members in insertion order
Stringify(o, order) ==
    LET keys == SelectSeq(order, LAMBDA k : k \in DOMAIN o)
    IN  [i \in 1..Len(keys) |-> <<keys[i], o[keys[i]]>>]

\* JSON.parse of such a text
Parse(s) ==
    [k \in {s[i][1] : i \in 1..Len(s)} |->
        LET i == CHOOSE j \in 1..Len(s) : s[j][1] = k /\ \A l \in 1..Len(s) : s[l][1] = k => l <= j
        IN  s[i][2]]

CredOrder == <<"email", "password">>
TokenOrder == <<"token", "expires", "userId", "accountId", "region">>

----------------------------------------------------------------------------
(* Secret-store bridge and encryption engine (SecureStorage)               *)

ToHex(k) == [hex |-> k]
FromHex(h) == h.hex
ToB64(x) == [b64 |-> x]
FromB64(x) == x.b64

\* the SecureStorage instance together with the keychain and the files it owns
Store == [kcKey |-> kcKey, kcAuth |-> kcAuth, encryptionKey |-> encryptionKey,
          credFile |-> credFile, tokenFile |-> tokenFile]

\* the master keys a file's record was made with (ciphertext and tag)
KeyList(f) ==
    IF f.kind = "enc"
    THEN <<f.encrypted.gcm[2].scrypt[1], FromB64(f.authTag).tag[2].scrypt[1],
           FromB64(f.authTag).tag[1].gcm[2].scrypt[1]>>
    ELSE <<>>
AllKeys(S) ==
    (IF S.kcKey = Null THEN <<>> ELSE <<FromHex(S.kcKey)>>)
        \o (IF S.encryptionKey = NoKey THEN <<>> ELSE <<S.encryptionKey>>)
        \o KeyList(S.credFile) \o KeyList(S.tokenFile)
UsedKeys(S) == {AllKeys(S)[i] : i \in 1..Len(AllKeys(S))}

\* randomBytes(KEY_LENGTH): a key no record and no store entry holds
RandomKey(S) ==
    CHOOSE k \in Keys \ UsedKeys(S) : \A j \in Keys \ UsedKeys(S) : k <= j

\* the salts and the initialisation vectors the files' records were made with
SaltList(f) ==
    IF f.kind = "enc"
    THEN <<FromB64(f.salt), f.encrypted.gcm[2].scrypt[2], FromB64(f.authTag).tag[2].scrypt[2],
           FromB64(f.authTag).tag[1].gcm[2].scrypt[2]>>
    ELSE <<>>
IvList(f) ==
    IF f.kind = "enc"
    THEN <<FromB64(f.iv), f.encrypted.gcm[3], FromB64(f.authTag).tag[3],
           FromB64(f.authTag).tag[1].gcm[3]>>
    ELSE <<>>
AllSalts(S) == SaltList(S.credFile) \o SaltList(S.tokenFile)
AllIvs(S) == IvList(S.credFile) \o IvList(S.tokenFile)
UsedSalts(S) == {AllSalts(S)[i] : i \in 1..Len(AllSalts(S))}
UsedIvs(S) == {AllIvs(S)[i] : i \in 1..Len(AllIvs(S))}

\* randomBytes(SALT_LENGTH), randomBytes(IV_LENGTH): values no record holds
RandomSalt(S) ==
    CHOOSE x \in Salts \ UsedSalts(S) : \A j \in Salts \ UsedSalts(S) : x <= j
RandomIv(S) ==
    CHOOSE x \in IVs \ UsedIvs(S) : \A j \in IVs \ UsedIvs(S) : x <= j

\* variant: the generated key is cached but never written to the platform store
getEncryptionKey_NotStored(S, env) ==
    IF S.encryptionKey # NoKey
    THEN [ok |-> TRUE, key |-> S.encryptionKey, S |-> S]
    ELSE IF ~env.kcGet /\ S.kcKey # Null
    THEN [ok |-> TRUE, key |-> FromHex(S.kcKey),
          S |-> [S EXCEPT !.encryptionKey = FromHex(S.kcKey)]]
    ELSE [ok |-> TRUE, key |-> RandomKey(S),
          S |-> [S EXCEPT !.encryptionKey = RandomKey(S)]]

\* variant: the platform store is not consulted, a new key is always made
getEncryptionKey_AlwaysGenerates(S, env) ==
    IF S.encryptionKey # NoKey
    THEN [ok |-> TRUE, key |-> S.encryptionKey, S |-> S]
    ELSE IF env.kcSet
    THEN [ok |-> FALSE, key |-> NoKey, S |-> S]
    ELSE [ok |-> TRUE, key |-> RandomKey(S),
          S |-> [S EXCEPT !.kcKey = ToHex(RandomKey(S)), !.encryptionKey = RandomKey(S)]]

getEncryptionKey(S, env) ==
    IF S.encryptionKey # NoKey
    THEN [ok |-> TRUE, key |-> S.encryptionKey, S |-> S]
    ELSE IF ~env.kcGet /\ S.kcKey # Null
    THEN [ok |-> TRUE, key |-> FromHex(S.kcKey),
          S |-> [S EXCEPT !.encryptionKey = FromHex(S.kcKey)]]
    ELSE LET newKey == RandomKey(S)
         IN  IF env.kcSet
             THEN [ok |-> FALSE, key |-> NoKey, S |-> S]
             ELSE [ok |-> TRUE, key |-> newKey,
                   S |-> [S EXCEPT !.kcKey = ToHex(newKey), !.encryptionKey = newKey]]

\* variant: the key is derived from the master key alone
deriveKey_IgnoresSalt(masterKey, salt) == [scrypt |-> <<masterKey, 1>>]

\* scryptSync(masterKey, salt, KEY_LENGTH)
deriveKey(masterKey, salt) == [scrypt |-> <<masterKey, salt>>]

\* AES-256-GCM: the ciphertext and the tag are terms over key, iv and plaintext
GcmCipher(data, derivedKey, iv) == [gcm |-> <<data, derivedKey, iv>>]
GcmTag(ct, derivedKey, iv) == [tag |-> <<ct, derivedKey, iv>>]

encrypt(S, env, data) ==
    LET g == getEncryptionKey(S, env)
        salt == RandomSalt(S)
        iv == RandomIv(S)
        derivedKey == deriveKey(g.key, salt)
        ct == GcmCipher(data, derivedKey, iv)
    IN  IF ~g.ok
        THEN [ok |-> FALSE, S |-> g.S, rec |-> Null]
        ELSE [ok |-> TRUE, S |-> g.S,
              rec |-> [kind |-> "enc", encrypted |-> ct, iv |-> ToB64(iv),
                       authTag |-> ToB64(GcmTag(ct, derivedKey, iv)), salt |-> ToB64(salt)]]

\* variant: decipher.final() is not made to verify the authentication tag
decrypt_Unauthenticated(S, env, rec) ==
    LET g == getEncryptionKey(S, env)
    IN  IF ~g.ok \/ rec.kind # "enc"
        THEN [ok |-> FALSE, S |-> g.S, data |-> <<>>]
        ELSE [ok |-> TRUE, S |-> g.S, data |-> rec.encrypted.gcm[1]]

\* Buffer.from(undefined, 'base64') throws for a parsed file that has no such
\* fields; decipher.final() throws unless the tag fits key, iv and ciphertext
decrypt(S, env, rec) ==
    LET g == getEncryptionKey(S, env)
        derivedKey == deriveKey(g.key, FromB64(rec.salt))
        iv == FromB64(rec.iv)
        ct == rec.encrypted
        authentic == /\ FromB64(rec.authTag) = GcmTag(ct, derivedKey, iv)
                     /\ ct.gcm[2] = derivedKey
                     /\ ct.gcm[3] = iv
    IN  IF ~g.ok \/ rec.kind # "enc" \/ ~authentic
        THEN [ok |-> FALSE, S |-> g.S, data |-> <<>>]
        ELSE [ok |-> TRUE, S |-> g.S, data |-> ct.gcm[1]]

\* writeFileSync throws when the disk write fails; chmod errors are ignored
saveEncryptedFile(S, env, which, rec) ==
    IF env.disk
    THEN [ok |-> FALSE, S |-> S]
    ELSE [ok |-> TRUE, S |-> IF which = "cred" THEN [S EXCEPT !.credFile = rec]
                                                ELSE [S EXCEPT !.tokenFile = rec]]

loadEncryptedFile(f) == IF f.kind \in {"absent", "garbage"} THEN Null ELSE f

----------------------------------------------------------------------------
(* Credential vault and token vault (SecureStorage)                        *)

saveCredentials(S, env, credentials) ==
    LET e == encrypt(S, env, Stringify(credentials, CredOrder))
    IN  IF ~e.ok THEN [ok |-> FALSE, S |-> e.S]
        ELSE saveEncryptedFile(e.S, env, "cred", e.rec)

getCredentials(S, env) ==
    LET encryptedData == loadEncryptedFile(S.credFile)
        d == decrypt(S, env, encryptedData)
    IN  IF encryptedData = Null THEN [S |-> S, val |-> Null]
        ELSE IF ~d.ok THEN [S |-> d.S, val |-> Null]
        ELSE [S |-> d.S, val |-> Parse(d.data)]

hasCredentials(S) == S.credFile # Absent

\* variant: only the auxiliary store entry is removed, the file stays
clearToken_KeepsFile(S, env) ==
    [S EXCEPT !.kcAuth = IF env.kcDel THEN @ ELSE Null]

clearToken(S, env) ==
    [S EXCEPT !.tokenFile = Absent,
              !.kcAuth = IF env.kcDel THEN @ ELSE Null]

saveToken(S, env, tokenData) ==
    LET e == encrypt(S, env, Stringify(tokenData, TokenOrder))
        w == saveEncryptedFile(e.S, env, "token", e.rec)
    IN  IF ~e.ok THEN [ok |-> FALSE, S |-> e.S]
        ELSE IF ~w.ok THEN w
        ELSE [ok |-> TRUE,
              S |-> [w.S EXCEPT !.kcAuth = IF env.kcSet THEN @ ELSE tokenData.accountId]]

\* variant: the expiry is compared without the 5 minute buffer
TokenFresh_NoBuffer(expires, t) == t < expires

\* Date.now() < tokenData.expires - 300000
TokenFresh(expires, t) == t < expires - EXPIRY_BUFFER

\* variant: a record that does not decrypt is removed like an expired token
getToken_ClearsUnreadable(S, env, t) ==
    LET encryptedData == loadEncryptedFile(S.tokenFile)
        d == decrypt(S, env, encryptedData)
        tokenData == Parse(d.data)
    IN  IF encryptedData = Null THEN [S |-> S, val |-> Null]
        ELSE IF ~d.ok THEN [S |-> clearToken(d.S, env), val |-> Null]
        ELSE IF TokenFresh(tokenData.expires, t) THEN [S |-> d.S, val |-> tokenData]
        ELSE [S |-> clearToken(d.S, env), val |-> Null]

getToken(S, env, t) ==
    LET encryptedData == loadEncryptedFile(S.tokenFile)
        d == decrypt(S, env, encryptedData)
        tokenData == Parse(d.data)
    IN  IF encryptedData = Null THEN [S |-> S, val |-> Null]
        ELSE IF ~d.ok THEN [S |-> d.S, val |-> Null]
        ELSE IF TokenFresh(tokenData.expires, t) THEN [S |-> d.S, val |-> tokenData]
        ELSE [S |-> clearToken(d.S, env), val |-> Null]

\* variant: the cached master key survives the reset
clearAll_KeepsKey(S, env) ==
    LET c == clearToken([S EXCEPT !.credFile = Absent], env)
    IN  [c EXCEPT !.kcKey = IF env.kcDel THEN @ ELSE Null,
                  !.kcAuth = IF env.kcDel THEN @ ELSE Null]

clearAll(S, env) ==
    LET c == clearToken([S EXCEPT !.credFile = Absent], env)
    IN  [c EXCEPT !.kcKey = IF env.kcDel THEN @ ELSE Null,
                  !.kcAuth = IF env.kcDel THEN @ ELSE Null,
                  !.encryptionKey = NoKey]

----------------------------------------------------------------------------
(* Settings files and ConfigManager                                        *)

\* a version string "4.16.0" is held as its dot-separated numbers
DEFAULT_CLIENT_VERSION == <<4, 16, 0>>
DEFAULT_CONFIG == [region |-> "EU", targetLow |-> DEFAULT_TARGET_LOW,
                   targetHigh |-> DEFAULT_TARGET_HIGH, clientVersion |-> DEFAULT_CLIENT_VERSION]
VALID_REGIONS == {"AE", "AP", "AU", "CA", "DE", "EU", "EU2", "FR", "JP", "US", "LA", "RU", "CN"}

Json(o) == [kind |-> "json", obj |-> o]

\* parts[i] || 0
VersionPart(v, i) == IF i <= Len(v) THEN v[i] ELSE 0
compareVersions(v1, v2) ==
    LET n == IF Len(v1) > Len(v2) THEN Len(v1) ELSE Len(v2)
        diff == {i \in 1..n : VersionPart(v1, i) # VersionPart(v2, i)}
        i == CHOOSE j \in diff : \A k \in diff : j <= k
    IN  IF diff = {} THEN 0
        ELSE IF VersionPart(v1, i) < VersionPart(v2, i) THEN -1 ELSE 1

\* variant: the merged settings are returned as they were read
loadConfig_NoFloor(f) ==
    IF f.kind = "json"
    THEN Delete(Delete(Merge(DEFAULT_CONFIG, f.obj), "email"), "password")
    ELSE DEFAULT_CONFIG

loadConfig(f) ==
    IF f.kind = "json"
    THEN LET merged == Delete(Delete(Merge(DEFAULT_CONFIG, f.obj), "email"), "password")
         IN  IF merged.clientVersion = <<>>
                   \/ compareVersions(merged.clientVersion, DEFAULT_CLIENT_VERSION) < 0
             THEN [merged EXCEPT !.clientVersion = DEFAULT_CLIENT_VERSION]
             ELSE merged
    ELSE DEFAULT_CONFIG

\* writeFileSync(configPath, JSON.stringify(this.config)): the new file, or a throw
saveConfig(config, env, file) ==
    IF env.disk THEN [ok |-> FALSE, file |-> file] ELSE [ok |-> TRUE, file |-> Json(config)]

----------------------------------------------------------------------------
(* Legacy migration (SecureStorage.migrateFromLegacy)                      *)

\* legacyData.email || legacyData.credentials?.email ("" when neither is set)
LegacyEmail(o) ==
    IF Has(o, "email") /\ o.email # "" THEN o.email
    ELSE IF Has(o, "credentials") /\ Has(o.credentials, "email") THEN o.credentials.email
    ELSE ""
LegacyPassword(o) ==
    IF Has(o, "password") /\ o.password # "" THEN o.password
    ELSE IF Has(o, "credentials") /\ Has(o.credentials, "password") THEN o.credentials.password
    ELSE ""
\* email && password
HoldsPair(f) ==
    f.kind = "json" /\ LegacyEmail(f.obj) # "" /\ LegacyPassword(f.obj) # ""
LegacyPair(f) == [email |-> LegacyEmail(f.obj), password |-> LegacyPassword(f.obj)]

\* variant: the nested credentials object is carried over
CleanConfig_KeepsNested(o) ==
    Merge([region |-> IF Has(o, "region") /\ o.region # "" THEN o.region ELSE "EU",
           targetLow |-> DEFAULT_TARGET_LOW, targetHigh |-> DEFAULT_TARGET_HIGH,
           clientVersion |-> DEFAULT_CLIENT_VERSION],
          Delete(Delete(o, "email"), "password"))

CleanConfig(o) ==
    [region |-> IF Has(o, "region") /\ o.region # "" THEN o.region ELSE "EU",
     targetLow |->
        IF Has(o, "targetLow") /\ o.targetLow # 0 THEN o.targetLow
        ELSE IF Has(o, "ranges") /\ Has(o.ranges, "target_low") /\ o.ranges.target_low # 0
             THEN o.ranges.target_low
        ELSE DEFAULT_TARGET_LOW,
     targetHigh |->
        IF Has(o, "targetHigh") /\ o.targetHigh # 0 THEN o.targetHigh
        ELSE IF Has(o, "ranges") /\ Has(o.ranges, "target_high") /\ o.ranges.target_high # 0
             THEN o.ranges.target_high
        ELSE DEFAULT_TARGET_HIGH,
     clientVersion |->
        IF Has(o, "clientVersion") /\ o.clientVersion # <<>> THEN o.clientVersion
        ELSE DEFAULT_CLIENT_VERSION]

\* pathsToCheck: 1 = <configDir>/config.json, 2 = ~/.librelink-mcp/config.json
PathFile(i) == IF i = 1 THEN cfgFile ELSE legFile

----------------------------------------------------------------------------
(* State after construction                                                *)

\* LIBRE_LINK_SERVERS[region] || LIBRE_LINK_SERVERS['GLOBAL']
ServerOf(region) == IF region \in VALID_REGIONS THEN [api |-> region] ELSE [api |-> "GLOBAL"]

\* new LibreLinkClient(config, configManager)
NewClient(config) ==
    [exists |-> TRUE, configManager |-> TRUE,
     email |-> config.email, password |-> config.password,
     region |-> config.region, jwtToken |-> "", userId |-> "", accountId |-> Null,
     patientId |-> "", tokenExpires |-> 0, baseUrl |-> ServerOf(config.region)]
NoClient ==
    [exists |-> FALSE, configManager |-> FALSE,
     email |-> "", password |-> "", region |-> "", jwtToken |-> "",
     userId |-> "", accountId |-> Null, patientId |-> "", tokenExpires |-> 0,
     baseUrl |-> ServerOf("")]
NoCall == [fn |-> "none", inner |-> FALSE, at |-> "", req |-> Null, logins |-> 0,
           datas |-> 0, retry |-> FALSE, note |-> ""]
MigIdle == [pc |-> "idle", i |-> 0, clean |-> DEFAULT_CONFIG, scrubbed |-> {},
            streak |-> 0, faulty |-> FALSE]
NoFresh == [cred |-> Null, tok |-> Null, restarted |-> FALSE]
\* no getEncryptionKey() call is in progress and none has returned yet
KeyCallIds == 1..MaxKeyCalls
KeyCallIdle == [pc |-> "idle", got |-> Null, newKey |-> NoKey]
NoKeyCalls == [at |-> [i \in KeyCallIds |-> KeyCallIdle], returned |-> {}, cleared |-> FALSE]
\* no ensureAuthenticated() call is in progress
AuthCallIds == {1, 2}
AuthCallIdle == [pc |-> "idle", got |-> Null, tokenData |-> Null, ticket |-> Null]
NoAuthCalls == [i \in AuthCallIds |-> AuthCallIdle]
\* no replaced client is at work
NoDetached == [c |-> NoClient, call |-> NoCall]
Ret(v) == [ok |-> TRUE, val |-> v, after |-> "other"]
\* a read's result, with what the read followed: a save, or a save and a restart
RetAfter(v, saved, restarted) ==
    [ok |-> TRUE, val |-> v,
     after |-> IF saved = Null THEN "other" ELSE IF restarted THEN "saveRestart" ELSE "save"]
Thrown(msg) == [ok |-> FALSE, val |-> [error |-> msg], after |-> "other"]
Bool(b) == [b |-> b]

InitBase ==
    /\ kcKey = Null /\ kcAuth = Null /\ encryptionKey = NoKey
    /\ credFile = Absent /\ tokenFile = Absent
    /\ cfgFile = Absent /\ legFile = Absent
    /\ now = T0
    /\ cmConfig = DEFAULT_CONFIG /\ cachedCredentials = Null
    /\ mig = MigIdle
    /\ client = NoClient /\ call = NoCall
    /\ lastAct = "init" /\ res = Ret(Null) /\ fresh = NoFresh
    /\ keyCalls = NoKeyCalls
    /\ authCalls = NoAuthCalls
    /\ detached = NoDetached

\* Keys, salts and initialisation vectors are random values that are only ever
\* compared: a state is kept with each kind numbered in order of appearance
\* (store entry, cached key, credentials record, token record).
Rank(L, k) ==
    LET first == CHOOSE i \in 1..Len(L) : L[i] = k /\ \A j \in 1..Len(L) : L[j] = k => i <= j
    IN  Cardinality({L[j] : j \in 1..first})
KeyRank(S, k) == Rank(AllKeys(S), k)
RenameDk(S, dk) ==
    [scrypt |-> <<KeyRank(S, dk.scrypt[1]), Rank(AllSalts(S), dk.scrypt[2])>>]
RenameCt(S, ct) ==
    [gcm |-> <<ct.gcm[1], RenameDk(S, ct.gcm[2]), Rank(AllIvs(S), ct.gcm[3])>>]
RenameTag(S, t) ==
    [tag |-> <<RenameCt(S, t.tag[1]), RenameDk(S, t.tag[2]), Rank(AllIvs(S), t.tag[3])>>]
RenameFile(S, f) ==
    IF f.kind = "enc"
    THEN [f EXCEPT !.encrypted = RenameCt(S, @),
                   !.authTag = ToB64(RenameTag(S, FromB64(@))),
                   !.salt = ToB64(Rank(AllSalts(S), FromB64(@))),
                   !.iv = ToB64(Rank(AllIvs(S), FromB64(@)))]
    ELSE f
SetStore(S) ==
    /\ kcKey' = IF S.kcKey = Null THEN Null ELSE ToHex(KeyRank(S, FromHex(S.kcKey)))
    /\ kcAuth' = S.kcAuth
    /\ encryptionKey' = IF S.encryptionKey = NoKey THEN NoKey
                                                    ELSE KeyRank(S, S.encryptionKey)
    /\ credFile' = RenameFile(S, S.credFile)
    /\ tokenFile' = RenameFile(S, S.tokenFile)

----------------------------------------------------------------------------
(* SecureStorage used directly (as test-secure-storage.js does)            *)

TokenData == [token : {"jwt1"}, expires : ExpiresSet, userId : {"u1"},
              accountId : {[sha256 |-> "u1"]}, region : {"EU"}]

SaveCredentials(env, credentials) ==
    LET r == saveCredentials(Store, env, credentials)
    IN  /\ SetStore(r.S)
        /\ res' = IF r.ok THEN Ret(Null) ELSE Thrown("save")
        /\ fresh' = IF r.ok THEN [NoFresh EXCEPT !.cred = credentials] ELSE NoFresh
        /\ lastAct' = "saveCredentials"
        /\ UNCHANGED <<now, keyCalls, cfgVars, sessVars>>

GetCredentials(env) ==
    LET r == getCredentials(Store, env)
    IN  /\ SetStore(r.S)
        /\ res' = RetAfter(r.val, fresh.cred, fresh.restarted)
        /\ fresh' = NoFresh
        /\ lastAct' = "getCredentials"
        /\ UNCHANGED <<now, keyCalls, cfgVars, sessVars>>

SaveToken(env, tokenData) ==
    LET r == saveToken(Store, env, tokenData)
    IN  /\ SetStore(r.S)
        /\ res' = IF r.ok THEN Ret(Null) ELSE Thrown("save")
        /\ fresh' = IF r.ok THEN [NoFresh EXCEPT !.tok = tokenData] ELSE NoFresh
        /\ lastAct' = "saveToken"
        /\ UNCHANGED <<now, keyCalls, cfgVars, sessVars>>

GetToken(env) ==
    LET r == getToken(Store, env, now)
    IN  /\ SetStore(r.S)
        /\ res' = RetAfter(r.val, fresh.tok, fresh.restarted)
        /\ fresh' = NoFresh
        /\ lastAct' = "getToken"
        /\ UNCHANGED <<now, keyCalls, cfgVars, sessVars>>

\* variant: an error of keytar.deletePassword is not caught
ClearToken_KeychainErrorEscapes(env) ==
    /\ SetStore(clearToken(Store, env))
    /\ res' = IF env.kcDel THEN Thrown("keychain") ELSE Ret(Null)
    /\ fresh' = NoFresh
    /\ lastAct' = "clearToken"
    /\ UNCHANGED <<now, keyCalls, cfgVars, sessVars>>

ClearToken(env) ==
    /\ SetStore(clearToken(Store, env))
    /\ res' = Ret(Null)
    /\ fresh' = NoFresh
    /\ lastAct' = "clearToken"
    /\ UNCHANGED <<now, keyCalls, cfgVars, sessVars>>

ClearAll(env) ==
    /\ SetStore(clearAll(Store, env))
    /\ res' = Ret(Null)
    /\ fresh' = NoFresh
    /\ lastAct' = "clearAll"
    /\ UNCHANGED <<now, keyCalls, cfgVars, sessVars>>

\* new SecureStorage(): a new process, nothing cached
NewInstance ==
    /\ encryptionKey # NoKey
    /\ encryptionKey' = NoKey
    /\ lastAct' = "new"
    /\ res' = Ret(Null)
    /\ fresh' = IF fresh = NoFresh THEN fresh ELSE [fresh EXCEPT !.restarted = TRUE]
    /\ UNCHANGED <<kcKey, kcAuth, credFile, tokenFile, now, keyCalls, cfgVars, sessVars>>

\* the clock moves on
Tick ==
    /\ \E t \in Instants : t > now /\ now' = t
    /\ UNCHANGED <<storeVars, cfgVars, sessVars, lastAct, res, fresh, keyCalls>>

NextVault ==
    \/ \E env \in EnvsWrite, c \in CredPairs : SaveCredentials(env, c)
    \/ \E env \in EnvsRead : GetCredentials(env)
    \/ \E env \in EnvsWrite, td \in TokenData : SaveToken(env, td)
    \/ \E env \in EnvsReadDel : GetToken(env)
    \/ \E env \in EnvsDel : ClearToken(env)
    \/ \E env \in EnvsDel : ClearAll(env)
    \/ NewInstance
    \/ Tick

SpecVault == InitBase /\ [][NextVault]_vars

----------------------------------------------------------------------------
(* The record files damaged from outside the program                       *)

\* a JSON text that parses, but not to a record with the four fields
NotARecord == [kind |-> "json"]

\* the plaintext with a member changed
Altered(data) == [data EXCEPT ![1] = <<data[1][1], "altered">>]

\* the record encrypt() writes for this plaintext, key, salt and iv
Sealed(data, key, salt, iv) ==
    [kind |-> "enc", encrypted |-> GcmCipher(data, deriveKey(key, salt), iv),
     iv |-> ToB64(iv),
     authTag |-> ToB64(GcmTag(GcmCipher(data, deriveKey(key, salt), iv),
                              deriveKey(key, salt), iv)),
     salt |-> ToB64(salt)]
Intact(f) ==
    /\ f.kind = "enc"
    /\ f = Sealed(f.encrypted.gcm[1], f.encrypted.gcm[2].scrypt[1], FromB64(f.salt),
                  FromB64(f.iv))

\* a ciphertext with bytes changed, and the tag that would fit it
AlteredCt(ct) == [gcm |-> <<Altered(ct.gcm[1]), ct.gcm[2], ct.gcm[3]>>]
AlteredTag(t) == [tag |-> <<AlteredCt(t.tag[1]), t.tag[2], t.tag[3]>>]

DamageKinds == {"unparseable", "notRecord", "encrypted", "iv", "authTag", "salt"}

Damaged(S, f, how) ==
    CASE how = "unparseable" -> Garbage
      [] how = "notRecord" -> NotARecord
      [] how = "encrypted" -> [f EXCEPT !.encrypted = AlteredCt(f.encrypted)]
      [] how = "iv" -> [f EXCEPT !.iv = ToB64(RandomIv(S))]
      [] how = "salt" -> [f EXCEPT !.salt = ToB64(RandomSalt(S))]
      [] how = "authTag" -> [f EXCEPT !.authTag = ToB64(AlteredTag(FromB64(f.authTag)))]

\* something outside the program rewrites an intact record file
Damage(which, how) ==
    /\ Intact(IF which = "cred" THEN credFile ELSE tokenFile)
    /\ SetStore(IF which = "cred"
                THEN [Store EXCEPT !.credFile = Damaged(Store, credFile, how)]
                ELSE [Store EXCEPT !.tokenFile = Damaged(Store, tokenFile, how)])
    /\ lastAct' = "damage"
    /\ res' = Ret(Null)
    /\ fresh' = NoFresh
    /\ UNCHANGED <<now, keyCalls, cfgVars, sessVars>>

NextDamage ==
    \/ \E c \in CredPairs : SaveCredentials(EnvOk, c)
    \/ \E env \in EnvsRead : GetCredentials(env)
    \/ \E td \in {t \in TokenData : t.expires - EXPIRY_BUFFER \in {T0, T0 + 1}} :
            SaveToken(EnvOk, td)
    \/ \E env \in EnvsRead : GetToken(env)
    \/ \E which \in {"cred", "token"}, how \in DamageKinds : Damage(which, how)
    \/ NewInstance

SpecDamage == InitBase /\ [][NextDamage]_vars

----------------------------------------------------------------------------
(* getEncryptionKey() at the grain of its awaits: calls of one process may  *)
(* overlap, each suspended at keytar.getPassword or keytar.setPassword      *)

KeyError == [kind |-> "error"]

\* the keys held anywhere: store, cache, files, calls in progress, keys returned
KeysHeld ==
    UsedKeys(Store) \cup {keyCalls.at[i].newKey : i \in KeyCallIds} \cup keyCalls.returned

\* randomBytes(KEY_LENGTH)
NewRandomKey == CHOOSE k \in Keys \ KeysHeld : \A j \in Keys \ KeysHeld : k <= j

\* `if (existingKey)` inside the try: the read answered with a stored key
HasExistingKey(got) == got # KeyError /\ got # Null

\* variant: the key is cached before the write to the platform store is awaited
keyAfterSet_CachedFirst(failed, newKey, cached) ==
    IF failed THEN [ok |-> FALSE, encryptionKey |-> newKey]
              ELSE [ok |-> TRUE, encryptionKey |-> newKey]

\* after `await keytar.setPassword(...)`: throw, or cache the new key
keyAfterSet(failed, newKey, cached) ==
    IF failed THEN [ok |-> FALSE, encryptionKey |-> cached]
              ELSE [ok |-> TRUE, encryptionKey |-> newKey]

\* `return this.encryptionKey`
KeyReturn(i, key) ==
    /\ keyCalls' = [keyCalls EXCEPT !.at[i] = KeyCallIdle, !.returned = @ \cup {key}]
    /\ res' = Ret([key |-> key])

\* the call is made: the cached key is returned, or keytar.getPassword is awaited
KeyCall(i) ==
    /\ keyCalls.at[i].pc = "idle"
    /\ IF encryptionKey # NoKey
       THEN /\ KeyReturn(i, encryptionKey)
            /\ lastAct' = "keyCached"
       ELSE /\ keyCalls' = [keyCalls EXCEPT !.at[i].pc = "getPassword"]
            /\ lastAct' = "keyCall"
            /\ UNCHANGED res
    /\ UNCHANGED <<storeVars, now, cfgVars, sessVars, fresh>>

\* keytar answers the read: the stored entry, or an error
KcGetPassword(i, failed) ==
    /\ keyCalls.at[i].pc = "getPassword"
    /\ keyCalls' = [keyCalls EXCEPT !.at[i].pc = "gotPassword",
                                    !.at[i].got = IF failed THEN KeyError ELSE kcKey]
    /\ lastAct' = "kcGet"
    /\ UNCHANGED <<storeVars, now, cfgVars, sessVars, res, fresh>>

\* the call resumes after the read: use the stored key, or generate one and
\* await keytar.setPassword
KeyAfterGet(i) ==
    /\ keyCalls.at[i].pc = "gotPassword"
    /\ IF HasExistingKey(keyCalls.at[i].got)
       THEN /\ encryptionKey' = FromHex(keyCalls.at[i].got)
            /\ KeyReturn(i, FromHex(keyCalls.at[i].got))
            /\ lastAct' = "keyStored"
       ELSE /\ Keys \ KeysHeld # {}
            /\ keyCalls' = [keyCalls EXCEPT !.at[i].pc = "setPassword",
                                            !.at[i].newKey = NewRandomKey]
            /\ lastAct' = "keyGenerated"
            /\ UNCHANGED <<encryptionKey, res>>
    /\ UNCHANGED <<kcKey, kcAuth, credFile, tokenFile, now, cfgVars, sessVars, fresh>>

\* keytar answers the write: the entry is replaced, or an error
KcSetPassword(i, failed) ==
    /\ keyCalls.at[i].pc = "setPassword"
    /\ keyCalls' = [keyCalls EXCEPT !.at[i].pc = IF failed THEN "setFailed" ELSE "setDone"]
    /\ kcKey' = IF failed THEN kcKey ELSE ToHex(keyCalls.at[i].newKey)
    /\ lastAct' = "kcSet"
    /\ UNCHANGED <<kcAuth, encryptionKey, credFile, tokenFile, now, cfgVars, sessVars,
                   res, fresh>>

\* the call resumes after the write: throw, or cache the new key and return it
KeyAfterSet(i) ==
    /\ keyCalls.at[i].pc \in {"setDone", "setFailed"}
    /\ LET r == keyAfterSet(keyCalls.at[i].pc = "setFailed", keyCalls.at[i].newKey,
                            encryptionKey)
       IN  /\ encryptionKey' = r.encryptionKey
           /\ IF r.ok
              THEN /\ KeyReturn(i, r.encryptionKey)
                   /\ lastAct' = "keyCreated"
              ELSE /\ keyCalls' = [keyCalls EXCEPT !.at[i] = KeyCallIdle]
                   /\ res' = Thrown("Failed to store encryption key in system keychain")
                   /\ lastAct' = "keyFailed"
    /\ UNCHANGED <<kcKey, kcAuth, credFile, tokenFile, now, cfgVars, sessVars, fresh>>

\* clearAll(): the full reset, after which a key may be created again
KeyClearAll(env) ==
    /\ LET c == clearAll(Store, env)
       IN  /\ kcKey' = c.kcKey /\ kcAuth' = c.kcAuth /\ encryptionKey' = c.encryptionKey
           /\ credFile' = c.credFile /\ tokenFile' = c.tokenFile
    /\ keyCalls' = [keyCalls EXCEPT !.returned = {}, !.cleared = TRUE]
    /\ res' = Ret(Null)
    /\ lastAct' = "clearAll"
    /\ UNCHANGED <<now, cfgVars, sessVars, fresh>>

\* the process ends and a new one starts: nothing cached, no call in progress
KeyNewProcess ==
    /\ encryptionKey # NoKey \/ keyCalls # NoKeyCalls
    /\ encryptionKey' = NoKey
    /\ keyCalls' = NoKeyCalls
    /\ res' = Ret(Null)
    /\ lastAct' = "new"
    /\ UNCHANGED <<kcKey, kcAuth, credFile, tokenFile, now, cfgVars, sessVars, fresh>>

NextKey ==
    \/ \E i \in KeyCallIds : KeyCall(i)
    \/ \E i \in KeyCallIds, failed \in BOOLEAN : KcGetPassword(i, failed)
    \/ \E i \in KeyCallIds : KeyAfterGet(i)
    \/ \E i \in KeyCallIds, failed \in BOOLEAN : KcSetPassword(i, failed)
    \/ \E i \in KeyCallIds : KeyAfterSet(i)
    \/ \E env \in EnvsDel : KeyClearAll(env)
    \/ KeyNewProcess

SpecKey == InitBase /\ [][NextKey]_vars

----------------------------------------------------------------------------
(* Server process: start-up, initializeClient() and the configuration tools *)

\* settings files found at start-up: old formats with the pair at the top
\* level or nested, a file without a password, a cleaned file, no file
CurrentSettings ==
    { Json([email |-> "a@b.com", password |-> "p@ss1", region |-> "US"]),
      Json([credentials |-> [email |-> "a@b.com", password |-> "p@ss1"]]),
      Json([email |-> "", credentials |-> [email |-> "a@b.com", password |-> "p@ss1"],
            ranges |-> [target_low |-> 80, target_high |-> 200],
            clientVersion |-> <<4, 10, 0>>]),
      Json([region |-> "US", targetLow |-> 80, targetHigh |-> 200,
            clientVersion |-> <<4, 17, 0>>]),
      Absent }
LegacySettings ==
    { Json([email |-> "c@d.com", password |-> "p@ss2", targetLow |-> 80]),
      Json([email |-> "a@b.com", password |-> "p@ss1"]),
      Json([email |-> "c@d.com", region |-> "EU"]),
      Garbage, Absent }

\* the module-level `new ConfigManager()` followed by main() -> initializeClient(),
\* which runs up to the first step of migrateFromLegacy()
StartProcess ==
    /\ mig.pc = "idle" /\ call.fn = "none"
    /\ encryptionKey' = NoKey
    /\ cmConfig' = loadConfig(cfgFile)
    /\ cachedCredentials' = Null
    /\ client' = NoClient
    /\ mig' = [mig EXCEPT !.pc = "check", !.i = 1, !.faulty = FALSE, !.scrubbed = {}]
    /\ lastAct' = "start"
    /\ fresh' = NoFresh
    /\ UNCHANGED <<kcKey, kcAuth, credFile, tokenFile, cfgFile, legFile, now, keyCalls, authCalls, detached, call, res>>

\* migrateFromLegacy() returns b; initializeClient() goes on to loadCredentials()
MigrateReturns(b, faulty) ==
    /\ mig' = [mig EXCEPT !.pc = "load", !.i = 0, !.clean = DEFAULT_CONFIG,
                          !.faulty = faulty,
                          !.streak = IF faulty THEN 0 ELSE IF @ >= 1 THEN 2 ELSE 1]
    /\ res' = Ret(Bool(b))
    /\ lastAct' = "migrateFromLegacy"

\* variant: the run reports a migration although no location was migrated
MigrateContinue_ReportsMigrated(faulty) ==
    IF mig.i = 2
    THEN MigrateReturns(TRUE, faulty)
    ELSE /\ mig' = [mig EXCEPT !.pc = "check", !.i = 2, !.clean = DEFAULT_CONFIG,
                               !.faulty = faulty]
         /\ lastAct' = "migrateCheck"
         /\ UNCHANGED res

\* the loop moves on to the next path, or returns false after the last one
MigrateContinue(faulty) ==
    IF mig.i = 2
    THEN MigrateReturns(FALSE, faulty)
    ELSE /\ mig' = [mig EXCEPT !.pc = "check", !.i = 2, !.clean = DEFAULT_CONFIG,
                               !.faulty = faulty]
         /\ lastAct' = "migrateCheck"
         /\ UNCHANGED res

\* one iteration of the loop up to `await this.saveCredentials(...)`
MigrateCheck(env) ==
    /\ mig.pc = "check"
    /\ LET f == PathFile(mig.i)
           r == saveCredentials(Store, env, LegacyPair(f))
       IN  IF HoldsPair(f)
           THEN /\ SetStore(r.S)
                /\ IF r.ok
                   THEN /\ mig' = [mig EXCEPT !.pc = "rewrite", !.clean = CleanConfig(f.obj),
                                              !.faulty = @ \/ env # EnvOk]
                        /\ lastAct' = "migrateSave"
                        /\ UNCHANGED res
                   ELSE MigrateContinue(TRUE)
           ELSE /\ env = EnvOk
                /\ UNCHANGED storeVars
                /\ MigrateContinue(mig.faulty)
    /\ fresh' = NoFresh
    /\ UNCHANGED <<cfgFile, legFile, now, keyCalls, cmConfig, cachedCredentials, sessVars>>

\* variant: the loop goes on to the next location after a migration
MigrateRewrite_GoesOn(env) ==
    /\ mig.pc = "rewrite"
    /\ IF env.disk
       THEN /\ MigrateContinue(TRUE)
            /\ UNCHANGED <<cfgFile, legFile>>
       ELSE /\ cfgFile' = Json(mig.clean)
            /\ legFile' = IF mig.i = 2 THEN Json(mig.clean) ELSE legFile
            /\ MigrateContinue(mig.faulty)
    /\ UNCHANGED <<storeVars, now, keyCalls, cmConfig, cachedCredentials, sessVars, fresh>>

\* the rest of the iteration: the cleaned settings are written, true is returned
MigrateRewrite(env) ==
    /\ mig.pc = "rewrite"
    /\ IF env.disk
       THEN /\ MigrateContinue(TRUE)
            /\ UNCHANGED <<cfgFile, legFile>>
       ELSE /\ cfgFile' = Json(mig.clean)
            /\ legFile' = IF mig.i = 2 THEN Json(mig.clean) ELSE legFile
            /\ mig' = [mig EXCEPT !.pc = "load", !.i = 0, !.clean = DEFAULT_CONFIG,
                                  !.scrubbed = @ \cup {1} \cup (IF mig.i = 2 THEN {2} ELSE {}),
                                  !.streak = IF mig.faulty THEN 0 ELSE IF @ >= 1 THEN 2 ELSE 1]
            /\ res' = Ret(Bool(TRUE))
            /\ lastAct' = "migrateFromLegacy"
    /\ UNCHANGED <<storeVars, now, keyCalls, cmConfig, cachedCredentials, sessVars, fresh>>

\* initializeClient() after the migration: loadCredentials(), isConfigured(),
\* getConfig() and new LibreLinkClient(config, configManager)
LoadCredentials(env) ==
    /\ mig.pc = "load"
    /\ LET r == getCredentials(Store, env)
       IN  /\ SetStore(r.S)
           /\ cachedCredentials' = r.val
           /\ client' = IF r.val # Null /\ r.val.email # "" /\ r.val.password # ""
                        THEN NewClient([email |-> r.val.email, password |-> r.val.password,
                                        region |-> cmConfig.region])
                        ELSE client
    /\ mig' = [mig EXCEPT !.pc = "idle"]
    /\ lastAct' = "loadCredentials"
    /\ UNCHANGED <<cfgFile, legFile, now, keyCalls, authCalls, detached, cmConfig, call, res, fresh>>

Idle == mig.pc = "idle" /\ call.fn = "none"
OtherOp == [mig EXCEPT !.streak = 0]

\* ConfigManager.updateRegion
UpdateRegion(env, region) ==
    /\ Idle
    /\ IF region \notin VALID_REGIONS
       THEN /\ res' = Thrown("Invalid region")
            /\ UNCHANGED <<cmConfig, cfgFile>>
       ELSE LET config == [cmConfig EXCEPT !.region = region]
                w == saveConfig(config, env, cfgFile)
            IN  /\ cmConfig' = config
                /\ cfgFile' = w.file
                /\ res' = IF w.ok THEN Ret(Null) ELSE Thrown("Failed to save configuration")
    /\ mig' = OtherOp
    /\ lastAct' = "updateRegion"
    /\ UNCHANGED <<storeVars, legFile, now, keyCalls, cachedCredentials, sessVars, fresh>>

\* ConfigManager.updateRanges
UpdateRanges(env, targetLow, targetHigh) ==
    /\ Idle
    /\ IF targetLow >= targetHigh \/ targetLow < 40 \/ targetLow > 100
            \/ targetHigh < 100 \/ targetHigh > 300
       THEN /\ res' = Thrown("Target range")
            /\ UNCHANGED <<cmConfig, cfgFile>>
       ELSE LET config == [cmConfig EXCEPT !.targetLow = targetLow, !.targetHigh = targetHigh]
                w == saveConfig(config, env, cfgFile)
            IN  /\ cmConfig' = config
                /\ cfgFile' = w.file
                /\ res' = IF w.ok THEN Ret(Null) ELSE Thrown("Failed to save configuration")
    /\ mig' = OtherOp
    /\ lastAct' = "updateRanges"
    /\ UNCHANGED <<storeVars, legFile, now, keyCalls, cachedCredentials, sessVars, fresh>>

\* ConfigManager.updateClientVersion
UpdateClientVersion(env, version) ==
    /\ Idle
    /\ LET v == IF compareVersions(version, DEFAULT_CLIENT_VERSION) < 0
                THEN DEFAULT_CLIENT_VERSION ELSE version
           config == [cmConfig EXCEPT !.clientVersion = v]
           w == saveConfig(config, env, cfgFile)
       IN  /\ cmConfig' = config
           /\ cfgFile' = w.file
           /\ res' = IF w.ok THEN Ret(Null) ELSE Thrown("Failed to save configuration")
    /\ mig' = OtherOp
    /\ lastAct' = "updateClientVersion"
    /\ UNCHANGED <<storeVars, legFile, now, keyCalls, cachedCredentials, sessVars, fresh>>

\* ConfigManager.clearConfig
ClearConfig(env) ==
    /\ Idle
    /\ LET w == saveConfig(DEFAULT_CONFIG, env, cfgFile)
       IN  /\ cmConfig' = DEFAULT_CONFIG
           /\ cfgFile' = w.file
           /\ IF w.ok
              THEN /\ SetStore(clearAll(Store, env))
                   /\ cachedCredentials' = Null
                   /\ res' = Ret(Null)
              ELSE /\ UNCHANGED <<storeVars, cachedCredentials>>
                   /\ res' = Thrown("Failed to save configuration")
    /\ mig' = OtherOp
    /\ lastAct' = "clearConfig"
    /\ fresh' = NoFresh
    /\ UNCHANGED <<legFile, now, keyCalls, sessVars>>

\* the configure_credentials tool: updateCredentials(), updateRegion() when a
\* region is given (region = "" when it is not), then initializeClient()
ConfigureCredentials(env, c, region) ==
    /\ Idle
    /\ LET r == saveCredentials(Store, env, c)
           config == [cmConfig EXCEPT !.region = region]
           w == saveConfig(config, env, cfgFile)
       IN  IF ~r.ok
           THEN /\ SetStore(r.S)
                /\ res' = Thrown("save")
                /\ mig' = OtherOp
                /\ UNCHANGED <<cachedCredentials, cmConfig, cfgFile>>
           ELSE /\ SetStore(clearToken(r.S, env))
                /\ cachedCredentials' = c
                /\ IF region = ""
                   THEN /\ UNCHANGED <<cmConfig, cfgFile>>
                        /\ res' = Ret(Null)
                        /\ mig' = [OtherOp EXCEPT !.pc = "check", !.i = 1, !.faulty = FALSE]
                   ELSE IF region \notin VALID_REGIONS
                   THEN /\ UNCHANGED <<cmConfig, cfgFile>>
                        /\ res' = Thrown("Invalid region")
                        /\ mig' = OtherOp
                   ELSE /\ cmConfig' = config
                        /\ cfgFile' = w.file
                        /\ res' = IF w.ok THEN Ret(Null)
                                          ELSE Thrown("Failed to save configuration")
                        /\ mig' = IF w.ok
                                  THEN [OtherOp EXCEPT !.pc = "check", !.i = 1, !.faulty = FALSE]
                                  ELSE OtherOp
    /\ lastAct' = "configureCredentials"
    /\ fresh' = NoFresh
    /\ UNCHANGED <<legFile, now, keyCalls, sessVars>>

InitServer ==
    /\ kcKey = Null /\ kcAuth = Null /\ encryptionKey = NoKey
    /\ credFile = Absent /\ tokenFile = Absent
    /\ cfgFile \in CurrentSettings
    /\ legFile \in LegacySettings
    /\ now = T0
    /\ cmConfig = loadConfig(cfgFile) /\ cachedCredentials = Null
    /\ mig = [MigIdle EXCEPT !.pc = "check", !.i = 1]
    /\ client = NoClient /\ call = NoCall
    /\ lastAct = "start" /\ res = Ret(Null) /\ fresh = NoFresh
    /\ keyCalls = NoKeyCalls
    /\ authCalls = NoAuthCalls
    /\ detached = NoDetached

NextServer ==
    \/ StartProcess
    \/ \E env \in EnvsMigrate : MigrateCheck(env)
    \/ \E env \in {EnvOk, [EnvOk EXCEPT !.disk = TRUE]} : MigrateRewrite(env)
    \/ LoadCredentials(EnvOk)
    \/ \E region \in {"US", "XX"} : UpdateRegion(EnvOk, region)
    \/ \E r \in {<<80, 200>>, <<100, 90>>} : UpdateRanges(EnvOk, r[1], r[2])
    \/ \E v \in {<<4, 10, 0>>, <<4, 17, 0>>} : UpdateClientVersion(EnvOk, v)
    \/ ClearConfig(EnvOk)
    \/ \E c \in CredPairs, region \in {"", "US"} : ConfigureCredentials(EnvOk, c, region)

SpecServer == InitServer /\ [][NextServer]_vars

----------------------------------------------------------------------------
(* Session state machine (LibreLinkClient)                                 *)

\* variant: the identifier computed for the first user is kept for the next
generateAccountId_Kept(userId) == [sha256 |-> "u1"]

\* createHash('sha256').update(userId).digest('hex')
generateAccountId(userId) == [sha256 |-> userId]

\* String.prototype.toUpperCase on the region codes the service sends
ToUpperCase(r) ==
    CASE r = "us" -> "US" [] r = "eu" -> "EU" [] r = "xx" -> "XX" [] OTHER -> r

isTokenValid(c, t) ==
    /\ c.jwtToken # ""
    /\ c.accountId # Null
    /\ t < c.tokenExpires - EXPIRY_BUFFER

\* variant: the stored token is taken over whatever its region is
tryRestoreSession_AnyRegion(c, S, env, t) ==
    LET g == getToken(S, env, t)
    IN  IF ~c.configManager \/ g.val = Null
        THEN [restored |-> FALSE, c |-> c, S |-> g.S]
        ELSE [restored |-> TRUE, S |-> g.S,
              c |-> [c EXCEPT !.jwtToken = g.val.token, !.tokenExpires = g.val.expires,
                              !.userId = g.val.userId, !.accountId = g.val.accountId,
                              !.baseUrl = ServerOf(g.val.region)]]

\* tryRestoreSession() after `await this.configManager.getToken()`: g is what
\* getToken() gave (the token or null, and the vault it left)
restoreFrom(c, env, g) ==
    IF g.val = Null THEN [restored |-> FALSE, c |-> c, S |-> g.S]
    ELSE IF g.val.region # c.region
    THEN [restored |-> FALSE, c |-> c, S |-> clearToken(g.S, env)]
    ELSE [restored |-> TRUE, S |-> g.S,
          c |-> [c EXCEPT !.jwtToken = g.val.token,
                          !.tokenExpires = g.val.expires,
                          !.userId = g.val.userId,
                          !.accountId = g.val.accountId,
                          !.baseUrl = ServerOf(g.val.region)]]

tryRestoreSession(c, S, env, t) ==
    IF ~c.configManager THEN [restored |-> FALSE, c |-> c, S |-> S]
    ELSE restoreFrom(c, env, getToken(S, env, t))

\* variant: the record is labelled with the configured region, not the
\* region the client is working with
saveSession_ConfiguredRegion(c, S, env) ==
    LET tokenData == [token |-> c.jwtToken, expires |-> c.tokenExpires,
                      userId |-> c.userId, accountId |-> c.accountId,
                      region |-> cmConfig.region]
        r == saveToken(S, env, tokenData)
    IN  IF ~c.configManager \/ c.jwtToken = "" \/ c.userId = "" \/ c.accountId = Null
        THEN [S |-> S, failed |-> FALSE]
        ELSE [S |-> r.S, failed |-> ~r.ok]

\* saveSession(): a failure of saveToken is caught and logged
saveSession(c, S, env) ==
    LET tokenData == [token |-> c.jwtToken, expires |-> c.tokenExpires,
                      userId |-> c.userId, accountId |-> c.accountId, region |-> c.region]
        r == saveToken(S, env, tokenData)
    IN  IF ~c.configManager \/ c.jwtToken = "" \/ c.userId = "" \/ c.accountId = Null
        THEN [S |-> S, failed |-> FALSE]
        ELSE [S |-> r.S, failed |-> ~r.ok]

\* ensureAuthenticated() up to the point where it returns (login = FALSE) or
\* posts the login request (login = TRUE)
afterRestore(r, t) ==
    IF r.restored /\ isTokenValid(r.c, t) THEN [login |-> FALSE, c |-> r.c, S |-> r.S]
    ELSE [login |-> ~isTokenValid(r.c, t), c |-> r.c, S |-> r.S]
\* variant: the stored token is never looked at, an invalid session logs in
ensureAuthenticated_NoRestore(c, S, env, t) ==
    IF isTokenValid(c, t) THEN [login |-> FALSE, c |-> c, S |-> S]
    ELSE [login |-> TRUE, c |-> c, S |-> S]

\* variant: the stored token is read also while the session in memory is valid
ensureAuthenticated_AlwaysRestore(c, S, env, t) ==
    afterRestore(tryRestoreSession(c, S, env, t), t)

ensureAuthenticated(c, S, env, t) ==
    IF isTokenValid(c, t) THEN [login |-> FALSE, c |-> c, S |-> S]
    ELSE afterRestore(tryRestoreSession(c, S, env, t), t)

\* the requests: createClient() / createAuthenticatedClient() and the endpoint
LoginReq(c) ==
    [kind |-> "login", base |-> c.baseUrl, email |-> c.email, password |-> c.password]
DataReq(c, kind) ==
    [kind |-> kind, base |-> c.baseUrl, token |-> c.jwtToken, accountId |-> c.accountId]

\* where a data call stands after a step: still running (a request in flight)
\* or finished with a result
Going(c, S, k) == [c |-> c, S |-> S, call |-> k, res |-> res]
Ended(c, S, result) == [c |-> c, S |-> S, call |-> NoCall, res |-> result]

postLogin(c, S, k, at) ==
    Going(c, S, [k EXCEPT !.at = at, !.req = LoginReq(c), !.logins = @ + 1])
\* variant: the request is built whatever the session holds
getData_Unchecked(c, S, k, kind) ==
    Going(c, S, [k EXCEPT !.at = "req", !.req = DataReq(c, kind), !.datas = @ + 1])

\* createAuthenticatedClient() throws without a token or an Account-Id
getData(c, S, k, kind) ==
    IF c.jwtToken = "" \/ c.accountId = Null
    THEN Ended(c, S, Thrown("Not authenticated. Call login() first."))
    ELSE Going(c, S, [k EXCEPT !.at = "req", !.req = DataReq(c, kind), !.datas = @ + 1])

\* getConnections() from its first line; ea is what ensureAuthenticated() gave
requestConnections(ea, k) ==
    IF ea.login THEN postLogin(ea.c, ea.S, k, "ea")
    ELSE getData(ea.c, ea.S, k, "connections")
getConnections(c, S, env, t, k) ==
    requestConnections(ensureAuthenticated(c, S, env, t), k)

\* getPatientId() from its first line, and getGraphData() after it
getPatientId(c, S, env, t, k) ==
    IF c.patientId # "" THEN getData(c, S, [k EXCEPT !.inner = FALSE], "graph")
    ELSE getConnections(c, S, env, t, [k EXCEPT !.inner = TRUE])

\* getGraphData() from its first line
requestGraph(ea, env, t, k) ==
    IF ea.login THEN postLogin(ea.c, ea.S, [k EXCEPT !.inner = FALSE], "ea")
    ELSE getPatientId(ea.c, ea.S, env, t, k)
getGraphData(c, S, env, t, k) ==
    requestGraph(ensureAuthenticated(c, S, env, t), env, t, k)

\* InConnections(k): the function whose body is running is the nested
\* getConnections() or the call itself
InConnections(k) == k.fn = "getConnections" \/ k.inner

\* login() returned: ensureAuthenticated() returns to the first line of the
\* running function (at = "ea") or to its 401 handler, which calls it again
afterLogin(c, S, env, t, k) ==
    IF k.at = "ea"
    THEN IF InConnections(k) THEN getData(c, S, k, "connections")
         ELSE getPatientId(c, S, env, t, k)
    ELSE IF InConnections(k) THEN getConnections(c, S, env, t, k)
         ELSE getGraphData(c, S, env, t, k)

\* the 401 handler after its ensureAuthenticated()
retryAfter401(ea, env, t, k) ==
    IF ea.login THEN postLogin(ea.c, ea.S, k, "re")
    ELSE IF InConnections(k) THEN getConnections(ea.c, ea.S, env, t, k)
    ELSE getGraphData(ea.c, ea.S, env, t, k)

\* the step's outcome becomes the next state; a call issues at most
\* MaxLoginReqs login requests and MaxDataReqs data requests in the model
Becomes(r) ==
    /\ r.call.logins <= MaxLoginReqs
    /\ r.call.datas <= MaxDataReqs
    /\ client' = r.c
    /\ SetStore(r.S)
    /\ call' = r.call
    /\ res' = r.res

\* a tool handler calls client.getConnections() or client.getGraphData()
StartCall(fn, env) ==
    /\ client.exists /\ call.fn = "none" /\ mig.pc = "idle"
    /\ LET k == [NoCall EXCEPT !.fn = fn,
                    !.note = IF isTokenValid(client, now) THEN "valid"
                             ELSE IF getToken(Store, env, now).val = Null THEN ""
                             ELSE IF getToken(Store, env, now).val.region # client.region
                             THEN "dropped" ELSE "restored"]
       IN  Becomes(IF fn = "getConnections"
                   THEN getConnections(client, Store, env, now, k)
                   ELSE getGraphData(client, Store, env, now, k))
    /\ lastAct' = "call"
    /\ UNCHANGED <<now, keyCalls, authCalls, detached, cfgVars, fresh>>

\* variant: the user of the session in memory is kept, only the token changes
storeTicket_KeepsUser(c, token, expires, userId) ==
    [c EXCEPT !.jwtToken = token, !.tokenExpires = expires * 1000,
              !.userId = IF @ = "" THEN userId ELSE @,
              !.accountId = IF @ = Null THEN generateAccountId(userId) ELSE @]

\* login() stores the authentication data of the answer (no await in between)
storeTicket(c, token, expires, userId) ==
    [c EXCEPT !.jwtToken = token, !.tokenExpires = expires * 1000,
              !.userId = userId, !.accountId = generateAccountId(userId)]

\* the login request is answered with an auth ticket
LoginOk(env, token, expires, userId) ==
    /\ call.fn # "none" /\ call.req.kind = "login"
    /\ LET c == storeTicket(client, token, expires, userId)
       IN  Becomes(afterLogin(c, saveSession(c, Store, env).S, env, now,
                              [call EXCEPT !.note = ""]))
    /\ lastAct' = "loginOk"
    /\ UNCHANGED <<now, keyCalls, authCalls, detached, cfgVars, fresh>>

\* the login request is answered with a redirect to another region
LoginRedirect(region) ==
    /\ call.fn # "none" /\ call.req.kind = "login"
    /\ LET newRegion == ToUpperCase(region)
           c == [client EXCEPT !.region = newRegion,
                               !.baseUrl = IF newRegion \in VALID_REGIONS
                                           THEN ServerOf(newRegion) ELSE [api |-> region]]
       IN  Becomes(postLogin(c, Store, [call EXCEPT !.note = ""], call.at))
    /\ lastAct' = "loginRedirect"
    /\ UNCHANGED <<now, keyCalls, authCalls, detached, cfgVars, fresh>>

\* what the try block of login() can throw: client.post() rejects with an
\* axios error (a response with a status, or none for a network error), or the
\* block itself throws on a 200 answer it cannot use
LoginFailureKinds == {"401", "401min", "403min", "403hdr", "403", "500", "network",
                      "invalid", "malformed"}
LoginFailure(kind) ==
    [axios |-> kind \notin {"invalid", "malformed"},
     status |-> CASE kind \in {"401", "401min"} -> 401
                  [] kind \in {"403min", "403hdr", "403"} -> 403
                  [] kind = "500" -> 500
                  [] OTHER -> 0,
     minimumVersion |-> kind \in {"401min", "403min"},
     message |-> IF kind = "403hdr" THEN "RequiredHeaderMissing" ELSE "",
     text |-> CASE kind \in {"401", "401min"} -> "Request failed with status code 401"
                [] kind \in {"403min", "403hdr", "403"} -> "Request failed with status code 403"
                [] kind = "500" -> "Request failed with status code 500"
                [] kind = "network" -> "Network Error"
                [] kind = "invalid" -> "Login failed: Invalid response from LibreLink API"
                [] OTHER -> "Cannot read properties of undefined (reading 'redirect')"]

\* `Login failed: ${axiosError.message}`
LoginFailedWith(text) ==
    CASE text = "Request failed with status code 403"
            -> "Login failed: Request failed with status code 403"
      [] text = "Request failed with status code 500"
            -> "Login failed: Request failed with status code 500"
      [] text = "Network Error" -> "Login failed: Network Error"
      [] OTHER -> "Login failed: "

\* variant: every 403 answer is reported as an unsupported version
loginCatch_Any403IsVersion(e) ==
    IF e.axios
    THEN IF e.status = 403 THEN "API requires minimum version"
         ELSE IF e.status = 401
         THEN "Authentication failed. Please check your email and password."
         ELSE LoginFailedWith(e.text)
    ELSE e.text

\* the catch block of login(): the message of the error it throws for e
loginCatch(e) ==
    IF e.axios
    THEN IF e.status = 403 /\ e.minimumVersion THEN "API requires minimum version"
         ELSE IF e.status = 403 /\ e.message = "RequiredHeaderMissing"
         THEN "Required header missing"
         ELSE IF e.status = 401
         THEN "Authentication failed. Please check your email and password."
         ELSE LoginFailedWith(e.text)
    ELSE e.text

\* the messages login() throws for the failures of the request
LoginError(kind) == loginCatch(LoginFailure(kind))

LoginFails(kind) ==
    /\ call.fn # "none" /\ call.req.kind = "login"
    /\ Becomes(Ended(client, Store, Thrown(LoginError(kind))))
    /\ lastAct' = "loginFailed"
    /\ UNCHANGED <<now, keyCalls, authCalls, detached, cfgVars, fresh>>

\* a data request is answered with 200 and a payload
DataOk(payload) ==
    /\ call.fn # "none" /\ call.req.kind = payload.kind
    /\ LET k == [call EXCEPT !.retry = FALSE, !.note = ""]
       IN  Becomes(IF call.req.kind = "graph" \/ ~call.inner
                   THEN Ended(client, Store, Ret(payload))
                   ELSE IF payload.data = <<>>
                   THEN Ended(client, Store, Thrown("No connections found"))
                   ELSE LET c == [client EXCEPT !.patientId = payload.data[1].patientId]
                        IN  getData(c, Store, [k EXCEPT !.inner = FALSE], "graph"))
    /\ lastAct' = "dataOk"
    /\ UNCHANGED <<now, keyCalls, authCalls, detached, cfgVars, fresh>>

\* a data request is answered with 401: the catch block of the running function
Data401(env) ==
    /\ call.fn # "none" /\ call.req.kind \in {"connections", "graph"}
    /\ LET S1 == IF client.configManager THEN clearToken(Store, env) ELSE Store
           c == [client EXCEPT !.jwtToken = ""]
       IN  Becomes(retryAfter401(ensureAuthenticated(c, S1, env, now), env, now,
                                 [call EXCEPT !.retry = TRUE, !.note = ""]))
    /\ lastAct' = "data401"
    /\ UNCHANGED <<now, keyCalls, authCalls, detached, cfgVars, fresh>>

\* any other failure of a data request is rethrown
DataFails ==
    /\ call.fn # "none" /\ call.req.kind \in {"connections", "graph"}
    /\ Becomes(Ended(client, Store, Thrown("Request failed")))
    /\ lastAct' = "dataFailed"
    /\ UNCHANGED <<now, keyCalls, authCalls, detached, cfgVars, fresh>>

\* LibreLinkClient.updateConfig
UpdateConfig(newConfig) ==
    /\ client.exists /\ call.fn = "none"
    /\ LET merged == [client EXCEPT
                         !.email = IF Has(newConfig, "email") THEN newConfig.email ELSE @,
                         !.password = IF Has(newConfig, "password")
                                      THEN newConfig.password ELSE @,
                         !.region = IF Has(newConfig, "region") THEN newConfig.region ELSE @]
           reset == \/ Has(newConfig, "email") /\ newConfig.email # ""
                    \/ Has(newConfig, "password") /\ newConfig.password # ""
                    \/ Has(newConfig, "region") /\ newConfig.region # ""
       IN  client' = IF ~reset THEN merged
                     ELSE [merged EXCEPT
                              !.jwtToken = "", !.accountId = Null, !.patientId = "",
                              !.baseUrl = IF Has(newConfig, "region") /\ newConfig.region # ""
                                          THEN ServerOf(newConfig.region) ELSE @]
    /\ lastAct' = "updateConfig"
    /\ res' = Ret(Null)
    /\ UNCHANGED <<storeVars, now, keyCalls, authCalls, detached, cfgVars, call, fresh>>

\* LibreLinkClient.getSessionStatus
getSessionStatus(c, t) ==
    [authenticated |-> c.jwtToken # "",
     tokenValid |-> isTokenValid(c, t),
     expiresAt |-> IF c.tokenExpires > 0 THEN [date |-> c.tokenExpires] ELSE Null]

\* variant: the session is dropped from memory only, the stored token stays
ClearSession_KeepsVault(env) ==
    /\ client.exists /\ call.fn = "none"
    /\ client' = [client EXCEPT !.jwtToken = "", !.accountId = Null, !.userId = "",
                                !.patientId = "", !.tokenExpires = 0]
    /\ lastAct' = "clearSession"
    /\ res' = Ret(Null)
    /\ UNCHANGED <<storeVars, now, keyCalls, authCalls, detached, cfgVars, call, fresh>>

\* LibreLinkClient.clearSession
ClearSession(env) ==
    /\ client.exists /\ call.fn = "none"
    /\ client' = [client EXCEPT !.jwtToken = "", !.accountId = Null, !.userId = "",
                                !.patientId = "", !.tokenExpires = 0]
    /\ SetStore(IF client.configManager THEN clearToken(Store, env) ELSE Store)
    /\ lastAct' = "clearSession"
    /\ res' = Ret(Null)
    /\ UNCHANGED <<now, keyCalls, authCalls, detached, cfgVars, call, fresh>>

\* the process is started again with nothing left to migrate: new
\* ConfigManager(), migrateFromLegacy() = false, loadCredentials(), new client
NewSession ==
    /\ call.fn = "none" /\ mig.pc = "idle"
    /\ ~HoldsPair(cfgFile) /\ ~HoldsPair(legFile)
    /\ LET r == getCredentials([Store EXCEPT !.encryptionKey = NoKey], EnvOk)
           config == loadConfig(cfgFile)
       IN  /\ SetStore(r.S)
           /\ cmConfig' = config
           /\ cachedCredentials' = r.val
           /\ client' = IF r.val # Null /\ r.val.email # "" /\ r.val.password # ""
                        THEN NewClient([email |-> r.val.email, password |-> r.val.password,
                                        region |-> config.region])
                        ELSE NoClient
    /\ lastAct' = "start"
    /\ res' = Ret(Null)
    /\ UNCHANGED <<cfgFile, legFile, now, keyCalls, authCalls, detached, mig, call, fresh>>

\* what the service may answer
LoginExpires == {T0 \div 1000 + 3600, T0 \div 1000 + 300}
Payloads ==
    {[kind |-> "connections", data |-> <<>>],
     [kind |-> "connections", data |-> <<[patientId |-> "p1"]>>],
     [kind |-> "graph", data |-> <<[connection |-> "p1"]>>]}
EnvsRestore == {EnvOk, [EnvOk EXCEPT !.kcGet = TRUE]}
EnvsPersist == {EnvOk, [EnvOk EXCEPT !.disk = TRUE]}

\* a configured process: the credentials are in the vault, the client exists
ConfiguredStore ==
    saveCredentials([kcKey |-> Null, kcAuth |-> Null, encryptionKey |-> NoKey,
                     credFile |-> Absent, tokenFile |-> Absent],
                    EnvOk, [email |-> "a@b.com", password |-> "p@ss1"]).S

InitSession ==
    /\ kcKey = ConfiguredStore.kcKey /\ kcAuth = Null
    /\ encryptionKey = ConfiguredStore.encryptionKey
    /\ credFile = ConfiguredStore.credFile /\ tokenFile = Absent
    /\ cfgFile \in {Absent, Json([DEFAULT_CONFIG EXCEPT !.region = "US"])}
    /\ legFile = Absent
    /\ now = T0
    /\ cmConfig = loadConfig(cfgFile)
    /\ cachedCredentials = [email |-> "a@b.com", password |-> "p@ss1"]
    /\ mig = MigIdle
    /\ client = NewClient([email |-> "a@b.com", password |-> "p@ss1",
                           region |-> cmConfig.region])
    /\ call = NoCall
    /\ lastAct = "loadCredentials" /\ res = Ret(Null) /\ fresh = NoFresh
    /\ keyCalls = NoKeyCalls
    /\ authCalls = NoAuthCalls
    /\ detached = NoDetached

NextSession ==
    \/ \E fn \in {"getConnections", "getGraphData"}, env \in EnvsRestore : StartCall(fn, env)
    \/ \E env \in EnvsPersist, expires \in LoginExpires : LoginOk(env, "jwt1", expires, "u1")
    \/ \E region \in {"us", "xx"} : LoginRedirect(region)
    \/ \E kind \in {"403min", "403hdr", "401", "invalid", "network"} : LoginFails(kind)
    \/ \E payload \in Payloads : DataOk(payload)
    \/ Data401(EnvOk)
    \/ DataFails
    \/ \E newConfig \in {[region |-> "US"], [region |-> "EU"]} : UpdateConfig(newConfig)
    \/ ClearSession(EnvOk)
    \/ NewSession
    \/ Tick

SpecSession == InitSession /\ [][NextSession]_vars

\* the same client with answers that differ in the user and in the token: the
\* account changes between logins, and a ticket may carry an empty token
LoginUsers == {"u1", "u2"}
LoginTokens == {"jwt1", ""}

NextLogin ==
    \/ \E fn \in {"getConnections", "getGraphData"} : StartCall(fn, EnvOk)
    \/ \E env \in EnvsPersist, token \in LoginTokens, userId \in LoginUsers :
          LoginOk(env, token, T0 \div 1000 + 3600, userId)
    \/ \E payload \in Payloads : DataOk(payload)
    \/ Data401(EnvOk)
    \/ \E newConfig \in {[email |-> "c@d.com"], [region |-> "US"]} : UpdateConfig(newConfig)
    \/ ClearSession(EnvOk)
    \/ NewSession

SpecLogin == InitSession /\ [][NextLogin]_vars

\* the same client with a service that may fail every login request in each
\* way login() tells apart, and a user who logs out
NextReject ==
    \/ \E fn \in {"getConnections", "getGraphData"} : StartCall(fn, EnvOk)
    \/ LoginOk(EnvOk, "jwt1", T0 \div 1000 + 3600, "u1")
    \/ LoginRedirect("us")
    \/ \E kind \in LoginFailureKinds : LoginFails(kind)
    \/ \E payload \in Payloads : DataOk(payload)
    \/ Data401(EnvOk)
    \/ \E env \in EnvsDel : ClearSession(env)

SpecReject == InitSession /\ [][NextReject]_vars

\* logins, with and without a regional redirect, and restarts of the process
NextRestart ==
    \/ \E fn \in {"getConnections", "getGraphData"} : StartCall(fn, EnvOk)
    \/ LoginOk(EnvOk, "jwt1", T0 \div 1000 + 3600, "u1")
    \/ \E region \in {"us", "eu"} : LoginRedirect(region)
    \/ \E payload \in Payloads : DataOk(payload)
    \/ NewSession

SpecRestart == InitSession /\ [][NextRestart]_vars

----------------------------------------------------------------------------
(* Overlapping ensureAuthenticated() calls on one client                   *)
(* A call is suspended where it awaits the vault read, the secret store or *)
(* the network; the other call may run at each of these points.            *)

\* the ticket the service issues to the login of call i
AuthTicket(i) ==
    [token |-> IF i = 1 THEN "jwt1" ELSE "jwt2",
     expires |-> T0 \div 1000 + 3600 + i,
     userId |-> IF i = 1 THEN "u1" ELSE "u2"]

\* ensureAuthenticated() goes on after its restore attempt: it returns, or
\* login() posts its request
AuthGoesOn(i, c) ==
    authCalls' = [authCalls EXCEPT ![i].pc = IF isTokenValid(c, now) THEN "done" ELSE "post",
                                   ![i].got = Null]

\* ensureAuthenticated() is called: with a valid session it returns, otherwise
\* getToken() reads the token file and awaits its decryption
EnsureStart(i) ==
    /\ client.exists /\ call.fn = "none" /\ authCalls[i].pc = "idle"
    /\ authCalls' = [authCalls EXCEPT
                        ![i].pc = IF isTokenValid(client, now) THEN "done" ELSE "getToken",
                        ![i].got = IF isTokenValid(client, now) THEN Null
                                   ELSE loadEncryptedFile(tokenFile)]
    /\ lastAct' = "ensureStart"
    /\ UNCHANGED <<storeVars, now, keyCalls, detached, cfgVars, client, call, res, fresh>>

\* getToken() resumes with the record `got` it read when it was called: g0 is
\* what it returns when the file still holds that record; an expired token
\* makes it unlink whatever file is there now
resumeGetToken(S, got, g0) ==
    IF got # Null /\ g0.val = Null /\ g0.S.tokenFile = Absent
    THEN [val |-> Null, S |-> clearToken(S, EnvOk), expired |-> TRUE]
    ELSE [val |-> g0.val, S |-> S, expired |-> FALSE]
\* tryRestoreSession() after it: dropped = clearToken() was called on the way
resumeRestore(g, r) ==
    [c |-> r.c, S |-> r.S, dropped |-> g.expired \/ (g.val # Null /\ ~r.restored)]
restoreResumed(c, g) == resumeRestore(g, restoreFrom(c, EnvOk, g))
restoreStale(c, S, got, t) ==
    restoreResumed(c, resumeGetToken(S, got,
        getToken([S EXCEPT !.tokenFile = IF got = Null THEN Absent ELSE got], EnvOk, t)))

\* the restore attempt of call i ends: the session is restored, or the token
\* is dropped (unlink, then the await of keytar.deletePassword), or there is
\* nothing to restore
TokenResumes(i, r) ==
    /\ client' = r.c
    /\ SetStore(r.S)
    /\ IF r.dropped
       THEN authCalls' = [authCalls EXCEPT ![i].pc = "deletePassword", ![i].got = Null]
       ELSE AuthGoesOn(i, r.c)
TokenRead(i) ==
    /\ authCalls[i].pc = "getToken"
    /\ TokenResumes(i, restoreStale(client, Store, authCalls[i].got, now))
    /\ lastAct' = "tokenRead"
    /\ UNCHANGED <<now, keyCalls, detached, cfgVars, call, res, fresh>>

\* clearToken() returns to tryRestoreSession(), which returns false
TokenDropped(i) ==
    /\ authCalls[i].pc = "deletePassword"
    /\ AuthGoesOn(i, client)
    /\ lastAct' = "tokenDropped"
    /\ UNCHANGED <<storeVars, now, keyCalls, detached, cfgVars, client, call, res, fresh>>

\* the login request of call i is answered with its ticket: the session fields
\* are set and saveSession() builds the record and awaits its encryption
LoginAnswered(i) ==
    /\ authCalls[i].pc = "post"
    /\ LET a == AuthTicket(i)
           c == storeTicket(client, a.token, a.expires, a.userId)
       IN  /\ client' = c
           /\ authCalls' = [authCalls EXCEPT
                               ![i].pc = "encrypt", ![i].ticket = a,
                               ![i].tokenData = [token |-> c.jwtToken,
                                                 expires |-> c.tokenExpires,
                                                 userId |-> c.userId,
                                                 accountId |-> c.accountId,
                                                 region |-> c.region]]
    /\ lastAct' = "loginAnswered"
    /\ UNCHANGED <<storeVars, now, keyCalls, detached, cfgVars, call, res, fresh>>

\* saveToken() resumes: the record is written to the token file, then the
\* auxiliary entry is awaited
TokenWritten(i) ==
    /\ authCalls[i].pc = "encrypt"
    /\ LET e == encrypt(Store, EnvOk, Stringify(authCalls[i].tokenData, TokenOrder))
       IN  SetStore(saveEncryptedFile(e.S, EnvOk, "token", e.rec).S)
    /\ authCalls' = [authCalls EXCEPT ![i].pc = "setPassword"]
    /\ lastAct' = "tokenWritten"
    /\ UNCHANGED <<now, keyCalls, detached, cfgVars, client, call, res, fresh>>

\* keytar.setPassword(SERVICE_NAME, 'auth-token', accountId) has returned:
\* saveToken(), saveSession(), login() and ensureAuthenticated() return
AuxStored(i) ==
    /\ authCalls[i].pc = "setPassword"
    /\ kcAuth' = authCalls[i].tokenData.accountId
    /\ authCalls' = [authCalls EXCEPT ![i].pc = "done", ![i].tokenData = Null]
    /\ lastAct' = "auxStored"
    /\ UNCHANGED <<kcKey, encryptionKey, credFile, tokenFile, now, keyCalls, detached, cfgVars,
                   client, call, res, fresh>>

\* both calls are over; the process goes on, or it is started again and the
\* new client has no session in memory
CallsOver(restart) ==
    /\ \A i \in AuthCallIds : authCalls[i].pc = "done"
    /\ authCalls' = NoAuthCalls
    /\ client' = IF restart
                 THEN NewClient([email |-> client.email, password |-> client.password,
                                 region |-> cmConfig.region])
                 ELSE client
    /\ lastAct' = "callsOver"
    /\ UNCHANGED <<storeVars, now, keyCalls, detached, cfgVars, call, res, fresh>>

NextOverlap ==
    \/ \E i \in AuthCallIds : EnsureStart(i)
    \/ \E i \in AuthCallIds : TokenRead(i)
    \/ \E i \in AuthCallIds : TokenDropped(i)
    \/ \E i \in AuthCallIds : LoginAnswered(i)
    \/ \E i \in AuthCallIds : TokenWritten(i)
    \/ \E i \in AuthCallIds : AuxStored(i)
    \/ \E restart \in BOOLEAN : CallsOver(restart)
    \/ /\ authCalls = NoAuthCalls
       /\ \E newConfig \in {[region |-> "US"], [region |-> "EU"]} : UpdateConfig(newConfig)

SpecOverlap == InitSession /\ [][NextOverlap]_vars

----------------------------------------------------------------------------
(* Tool calls that run while a data call is suspended at its request       *)
(* The server handles each tool call in its own async handler: while a     *)
(* data call awaits the service, configure_credentials or clear_session may *)
(* run to completion.                                                      *)

\* the service knows two accounts and issues each its own ticket
TicketFor(email) ==
    IF email = "a@b.com" THEN [token |-> "jwt1", userId |-> "u1"]
                         ELSE [token |-> "jwt2", userId |-> "u2"]

\* the login request in flight is answered with the ticket of its account
LoginGranted ==
    /\ call.fn # "none" /\ call.req.kind = "login"
    /\ LoginOk(EnvOk, TicketFor(call.req.email).token, T0 \div 1000 + 3600,
               TicketFor(call.req.email).userId)

\* the configure_credentials tool without a region and with working writes:
\* updateCredentials() (save, cache, clearToken), then initializeClient():
\* nothing to migrate, loadCredentials(), `client = new LibreLinkClient(...)`.
\* A data call in flight goes on with the client object it was started on.
ReplaceClient(g) ==
    /\ SetStore(g.S)
    /\ cachedCredentials' = g.val
    /\ client' = NewClient([email |-> g.val.email, password |-> g.val.password,
                            region |-> cmConfig.region])
ConfigureCredentialsTool(c) ==
    /\ client.exists /\ mig.pc = "idle" /\ detached = NoDetached
    /\ ~HoldsPair(cfgFile) /\ ~HoldsPair(legFile)
    /\ ReplaceClient(getCredentials(clearToken(saveCredentials(Store, EnvOk, c).S, EnvOk),
                                    EnvOk))
    /\ detached' = IF call.fn = "none" THEN NoDetached ELSE [c |-> client, call |-> call]
    /\ call' = NoCall
    /\ lastAct' = "configureCredentials"
    /\ res' = Ret(Null)
    /\ UNCHANGED <<cfgFile, legFile, cmConfig, mig, now, keyCalls, authCalls, fresh>>

\* the step's outcome for the call of the replaced client
DetachedBecomes(r) ==
    /\ r.call.logins <= MaxLoginReqs
    /\ r.call.datas <= MaxDataReqs
    /\ SetStore(r.S)
    /\ detached' = IF r.call = NoCall THEN NoDetached ELSE [c |-> r.c, call |-> r.call]
    /\ res' = r.res
    /\ UNCHANGED <<client, call, authCalls, now, keyCalls, cfgVars, fresh>>

\* the login request of the replaced client is answered with the ticket of
\* its account: login() stores it, saveSession() writes it to the token vault
DetachedLoginGranted ==
    /\ detached.call.fn # "none" /\ detached.call.req.kind = "login"
    /\ LET a == TicketFor(detached.call.req.email)
           c == storeTicket(detached.c, a.token, T0 \div 1000 + 3600, a.userId)
       IN  DetachedBecomes(afterLogin(c, saveSession(c, Store, EnvOk).S, EnvOk, now,
                                      [detached.call EXCEPT !.note = ""]))
    /\ lastAct' = "detachedLoginOk"

\* a data request of the replaced client is answered with 200 and a payload
DetachedDataOk(payload) ==
    /\ detached.call.fn # "none" /\ detached.call.req.kind = payload.kind
    /\ LET k == [detached.call EXCEPT !.retry = FALSE, !.note = ""]
       IN  DetachedBecomes(
               IF k.req.kind = "graph" \/ ~k.inner
               THEN Ended(detached.c, Store, Ret(payload))
               ELSE IF payload.data = <<>>
               THEN Ended(detached.c, Store, Thrown("No connections found"))
               ELSE getData([detached.c EXCEPT !.patientId = payload.data[1].patientId],
                            Store, [k EXCEPT !.inner = FALSE], "graph"))
    /\ lastAct' = "detachedDataOk"

\* the clear_session tool while a data call of the client is in flight
ClearSessionDuringCall(env) ==
    /\ client.exists /\ call.fn # "none"
    /\ client' = [client EXCEPT !.jwtToken = "", !.accountId = Null, !.userId = "",
                                !.patientId = "", !.tokenExpires = 0]
    /\ SetStore(IF client.configManager THEN clearToken(Store, env) ELSE Store)
    /\ lastAct' = "clearSession"
    /\ res' = Ret(Null)
    /\ UNCHANGED <<now, keyCalls, authCalls, detached, cfgVars, call, fresh>>

\* configure_credentials during getConnections()
NextReplace ==
    \/ StartCall("getConnections", EnvOk)
    \/ LoginGranted
    \/ \E payload \in Payloads : DataOk(payload)
    \/ \E c \in CredPairs : ConfigureCredentialsTool(c)
    \/ DetachedLoginGranted
    \/ \E payload \in Payloads : DetachedDataOk(payload)

SpecReplace == InitSession /\ [][NextReplace]_vars

\* clear_session during getGraphData()
NextLogout ==
    \/ StartCall("getGraphData", EnvOk)
    \/ LoginGranted
    \/ \E payload \in Payloads : DataOk(payload)
    \/ Data401(EnvOk)
    \/ DataFails
    \/ ClearSession(EnvOk)
    \/ ClearSessionDuringCall(EnvOk)

SpecLogout == InitSession /\ [][NextLogout]_vars

\* LibreLinkClient.updateConfig() with another account's credentials, between
\* data calls
NextAccounts ==
    \/ \E fn \in {"getConnections", "getGraphData"} : StartCall(fn, EnvOk)
    \/ LoginGranted
    \/ \E payload \in Payloads : DataOk(payload)
    \/ Data401(EnvOk)
    \/ \E c \in CredPairs : UpdateConfig(c)
    \/ \E newConfig \in {[region |-> "US"], [region |-> "EU"]} : UpdateConfig(newConfig)

SpecAccounts == InitSession /\ [][NextAccounts]_vars

\* ConfigManager.updateCredentials() up to its last suspension point:
\* saveCredentials(), the cache assignment, and clearToken() as far as
\* unlinkSync; clearToken() then awaits the auxiliary store entry's deletion
UpdateCredentialsBegin(c) ==
    /\ client.exists /\ mig.pc = "idle"
    /\ SetStore([saveCredentials(Store, EnvOk, c).S EXCEPT !.tokenFile = Absent])
    /\ cachedCredentials' = c
    /\ mig' = [mig EXCEPT !.pc = "clearToken"]
    /\ lastAct' = "updateCredentialsBegin"
    /\ UNCHANGED <<cfgFile, legFile, cmConfig, now, keyCalls, sessVars, res, fresh>>

\* keytar.deletePassword() settles and updateCredentials() returns
UpdateCredentialsEnd ==
    /\ mig.pc = "clearToken"
    /\ SetStore([Store EXCEPT !.kcAuth = Null])
    /\ mig' = [mig EXCEPT !.pc = "idle"]
    /\ lastAct' = "updateCredentials"
    /\ res' = Ret(Null)
    /\ UNCHANGED <<cfgFile, legFile, cmConfig, cachedCredentials, now, keyCalls,
                   sessVars, fresh>>

\* updateCredentials() during getConnections()
NextUpdate ==
    \/ StartCall("getConnections", EnvOk)
    \/ LoginGranted
    \/ \E payload \in Payloads : DataOk(payload)
    \/ \E c \in CredPairs : UpdateCredentialsBegin(c)
    \/ UpdateCredentialsEnd

SpecUpdate == InitSession /\ [][NextUpdate]_vars

----------------------------------------------------------------------------
(* Properties of the token vault and of the round trip                     *)

\* the step is a run of the named operation (the clock alone keeps lastAct)
StepOf(op) == lastAct' = op /\ now' = now

\* what the token file holds for a reader in environment env: the stored
\* token data when the record decrypts, Null otherwise
StoredToken(env) ==
    IF tokenFile.kind = "enc" /\ decrypt(Store, env, tokenFile).ok
    THEN Parse(decrypt(Store, env, tokenFile).data)
    ELSE Null

\* C3: getToken() returns the stored token exactly when the record decrypts
\* and now < expires - 300000 ms; in every other case it returns null.
C3_GetTokenIffOutsideBuffer ==
    [][StepOf("getToken") =>
          \A env \in EnvsReadDel :
              GetToken(env) =>
                  IF StoredToken(env) # Null /\ now < StoredToken(env).expires - 300000
                  THEN res'.val = StoredToken(env)
                  ELSE res'.val = Null]_vars

\* a token that expires 300001 ms after the read was returned
C3_Witness ==
    /\ lastAct = "getToken"
    /\ res.val # Null
    /\ now = T0
    /\ res.val.expires = now + 300001

\* C4: when getToken() finds a decryptable token that is expired or inside the
\* 5 minute buffer, the token file is gone when it returns null.
C4_ExpiredTokenIsDeleted ==
    [][StepOf("getToken") =>
          \A env \in EnvsReadDel :
              (/\ GetToken(env)
               /\ StoredToken(env) # Null
               /\ ~(now < StoredToken(env).expires - 300000))
              => (res'.val = Null /\ tokenFile' = Absent)]_vars

\* a read that followed a successful save returned null and left no file
C4_Witness ==
    /\ lastAct = "getToken"
    /\ res.after = "save"
    /\ res.val = Null
    /\ tokenFile = Absent

\* C10: a get that follows a save (directly, or after a restart that makes the
\* reader fetch the master key from the platform store) returns the saved
\* value: the credentials pair, or the token record if it is outside the
\* expiry buffer. The case is the one where the fetch of the key succeeds.
C10_SaveGetRoundTrip ==
    [][/\ (StepOf("getCredentials") /\ fresh.cred # Null) =>
            \A env \in EnvsRead :
                (GetCredentials(env) /\ ~env.kcGet) => res'.val = fresh.cred
       /\ (StepOf("getToken") /\ fresh.tok # Null) =>
            \A env \in EnvsReadDel :
                (/\ GetToken(env) /\ ~env.kcGet
                 /\ now < fresh.tok.expires - 300000)
                    => res'.val = fresh.tok]_vars

\* a fresh instance read back the pair saved by the previous one
C10_Witness ==
    /\ lastAct = "getCredentials"
    /\ res.after = "saveRestart"
    /\ res.val \in CredPairs

----------------------------------------------------------------------------
(* Properties of the legacy migration                                      *)

\* the file holds an email, a password or a nested credentials object
Sensitive(f) ==
    /\ f.kind = "json"
    /\ \/ Has(f.obj, "email") /\ f.obj.email # ""
       \/ Has(f.obj, "password")
       \/ Has(f.obj, "credentials")

\* what the Credential Vault gives a reader of the running process
VaultPair == getCredentials(Store, EnvOk).val

\* C5 as stated: once the running process has scrubbed a settings file, no
\* updateRegion / updateRanges / updateClientVersion / clearConfig makes a
\* settings file hold an email, a password or a nested credentials object
\* that it did not hold before the operation.
C5_NoSensitiveWriteBack ==
    [][(/\ mig.scrubbed # {}
        /\ lastAct' \in {"updateRegion", "updateRanges", "updateClientVersion",
                         "clearConfig"})
       => /\ Sensitive(cfgFile') => Sensitive(cfgFile)
          /\ Sensitive(legFile') => Sensitive(legFile)]_vars

\* C6 as stated: a run of migrateFromLegacy() that directly follows a
\* completed run returns false and changes neither the credentials record
\* nor a settings file.
C6_SecondRunIsNoOp ==
    [][(/\ mig.streak >= 1
        /\ mig.pc \in {"check", "rewrite"}
        /\ ~mig'.faulty
        /\ lastAct' \in {"migrateCheck", "migrateSave", "migrateFromLegacy"})
       => /\ credFile' = credFile
          /\ cfgFile' = cfgFile
          /\ legFile' = legFile
          /\ lastAct' = "migrateFromLegacy" => res'.val = Bool(FALSE)]_vars

\* C7: when the migration finds a settings file with both an email and a
\* password, the step that stores the pair leaves the settings files alone and
\* the vault then gives that pair; the step that follows rewrites the file to
\* exactly region, targetLow, targetHigh and clientVersion (EU, 70, 180 and
\* 4.16.0 for a setting the file did not have) and true is returned.
C7_VaultThenRewrite ==
    [][/\ (/\ mig.pc = "check"
           /\ HoldsPair(PathFile(mig.i))
           /\ MigrateCheck(EnvOk))
          => /\ mig'.pc = "rewrite"
             /\ getCredentials(Store', EnvOk).val = LegacyPair(PathFile(mig.i))
             /\ cfgFile' = cfgFile /\ legFile' = legFile
       /\ (mig.pc = "rewrite" /\ MigrateRewrite(EnvOk))
          => LET old == PathFile(mig.i).obj
                 new == IF mig.i = 1 THEN cfgFile' ELSE legFile'
             IN  /\ VaultPair = LegacyPair(PathFile(mig.i))
                 /\ new.kind = "json"
                 /\ DOMAIN new.obj = {"region", "targetLow", "targetHigh", "clientVersion"}
                 /\ ~Has(old, "region") => new.obj.region = "EU"
                 /\ Has(old, "region") => new.obj.region = old.region
                 /\ (~Has(old, "targetLow") /\ ~Has(old, "ranges")) => new.obj.targetLow = 70
                 /\ Has(old, "targetLow") => new.obj.targetLow = old.targetLow
                 /\ (~Has(old, "targetHigh") /\ ~Has(old, "ranges"))
                        => new.obj.targetHigh = 180
                 /\ ~Has(old, "clientVersion") => new.obj.clientVersion = <<4, 16, 0>>
                 /\ Has(old, "clientVersion") => new.obj.clientVersion = old.clientVersion
                 /\ lastAct' = "migrateFromLegacy"
                 /\ res' = Ret(Bool(TRUE))]_vars

\* a file that held only a nested credentials object was migrated: the vault
\* gives the pair and the file holds the four defaults
C7_Witness ==
    /\ lastAct = "migrateFromLegacy"
    /\ res.val = Bool(TRUE)
    /\ VaultPair = [email |-> "a@b.com", password |-> "p@ss1"]
    /\ cfgFile = Json([region |-> "EU", targetLow |-> 70, targetHigh |-> 180,
                       clientVersion |-> <<4, 16, 0>>])

\* C8 as stated: when migrateFromLegacy() has returned true, neither checked
\* location holds a plaintext email or password.
C8_NoPlaintextAfterMigration ==
    (lastAct = "migrateFromLegacy" /\ res.val = Bool(TRUE))
        => ~Sensitive(cfgFile) /\ ~Sensitive(legFile)

----------------------------------------------------------------------------
(* Properties of the session state machine                                 *)

\* C1 as stated: when the retried data request of a call is answered with 401
\* as well, the call ends with an error: no further login request and no
\* further data request is issued.
C1_SecondUnauthorizedIsRaised ==
    [][(/\ call.fn # "none"
        /\ call.req.kind \in {"connections", "graph"}
        /\ call.retry
        /\ StepOf("data401")
        /\ call' # call)
       => (call'.fn = "none" /\ ~res'.ok)]_vars

\* C2: when ensureAuthenticated() runs without a valid session in memory and
\* the vault gives an unexpired token of a region other than the client's, the
\* token is not taken over: after the step the token file is gone, the client
\* has no valid session and the login request is in flight.
C2_ForeignRegionTokenDiscarded ==
    [][StepOf("call") =>
          \A fn \in {"getConnections", "getGraphData"}, env \in EnvsRestore :
              (/\ StartCall(fn, env)
               /\ ~isTokenValid(client, now)
               /\ StoredToken(env) # Null
               /\ now < StoredToken(env).expires - 300000
               /\ StoredToken(env).region # client.region)
              => /\ tokenFile' = Absent
                 /\ client'.jwtToken = client.jwtToken
                 /\ client'.tokenExpires = client.tokenExpires
                 /\ ~isTokenValid(client', now)
                 /\ call'.fn = fn
                 /\ call'.req = LoginReq(client)]_vars

\* a call found a token of another region in the vault: the file is gone and
\* the login request is in flight
C2_Witness ==
    /\ lastAct = "call"
    /\ call.note = "dropped"
    /\ tokenFile = Absent
    /\ call.req.kind = "login"
    /\ client.jwtToken = ""

\* C9 as stated, for login(): when the login request is answered with an auth
\* ticket and the write of the token record fails, the call ends with an error.
C9_LoginSurfacesWriteFailure ==
    [][(call.fn # "none" /\ call.req.kind = "login" /\ StepOf("loginOk")) =>
          \A expires \in LoginExpires :
              LoginOk([EnvOk EXCEPT !.disk = TRUE], "jwt1", expires, "u1")
                  => (call'.fn = "none" /\ ~res'.ok)]_vars

----------------------------------------------------------------------------
(* Properties of the master key                                            *)

\* C11 as stated: in a process that has made no full reset, every key its
\* getEncryptionKey() calls have returned is the key the platform secret store
\* holds, so all calls return one and the same key, also when they overlap.
C11_OneKeyPerProcess ==
    ~keyCalls.cleared => \A k \in keyCalls.returned : kcKey = ToHex(k)

\* C12: a call that resumes from a failed read of the platform store goes on as
\* if no key were stored: it generates a key that nothing holds yet and awaits
\* the write, and when the write succeeds it caches and returns that key; a
\* call that resumes from a failed write throws the secure-storage error and
\* does not set the in-memory key, which is unset when no call has returned.
C12_ReadErrorGeneratesWriteErrorFails ==
    [][\A i \in KeyCallIds :
          (/\ keyCalls'.at[i] # keyCalls.at[i]
           /\ lastAct' \in {"keyGenerated", "keyStored", "keyCreated", "keyFailed"}) =>
              /\ (keyCalls.at[i].pc = "gotPassword" /\ keyCalls.at[i].got = KeyError)
                    => /\ keyCalls'.at[i].pc = "setPassword"
                       /\ keyCalls'.at[i].newKey \in Keys \ KeysHeld
                       /\ encryptionKey' = encryptionKey /\ kcKey' = kcKey
                       /\ res' = res
              /\ keyCalls.at[i].pc = "setDone"
                    => /\ encryptionKey' = keyCalls.at[i].newKey
                       /\ res' = Ret([key |-> keyCalls.at[i].newKey])
              /\ keyCalls.at[i].pc = "setFailed"
                    => /\ ~res'.ok
                       /\ res'.val = [error |-> "Failed to store encryption key in system keychain"]
                       /\ encryptionKey' = encryptionKey /\ kcKey' = kcKey
                       /\ keyCalls.returned = {} => encryptionKey' = NoKey
                       /\ keyCalls'.returned = keyCalls.returned]_vars

\* one call has just failed on the write and left the key unset, while another
\* has taken a failed read for 'no key' although the store holds one
C12_Witness ==
    /\ lastAct = "keyFailed" /\ ~res.ok /\ encryptionKey = NoKey
    /\ kcKey # Null
    /\ \E j \in KeyCallIds : /\ keyCalls.at[j].pc = "setPassword"
                             /\ keyCalls.at[j].got = KeyError

\* C13 as stated: once a call has returned a key, a call made afterwards
\* returns that same key, from the cache, and the platform store is not
\* touched (until clearAll() or the end of the process).
C13_LaterCallsReturnCachedKey ==
    [][\A i \in KeyCallIds :
          (keyCalls.returned # {} /\ KeyCall(i))
              => /\ lastAct' = "keyCached"
                 /\ keyCalls'.at[i].pc = "idle"
                 /\ \A k \in keyCalls.returned : res' = Ret([key |-> k])
                 /\ kcKey' = kcKey]_vars

----------------------------------------------------------------------------
(* Properties of reading damaged records                                   *)

\* the record is as encrypt() wrote it and the key a read obtains is its key
Readable(f, env) ==
    /\ Intact(f)
    /\ getEncryptionKey(Store, env).ok
    /\ getEncryptionKey(Store, env).key = f.encrypted.gcm[2].scrypt[1]

\* C14: getCredentials() and getToken() never throw; they return null when the
\* file is missing, does not parse to a record, was written under another key
\* or has a changed field, and otherwise exactly the stored object (for the
\* token: when it is outside the expiry buffer), never changed or partial data.
C14_UnreadableRecordGivesNull ==
    [][/\ StepOf("getCredentials") =>
            \A env \in EnvsRead :
                GetCredentials(env) =>
                    /\ res'.ok
                    /\ res'.val = IF Readable(credFile, env)
                                  THEN Parse(credFile.encrypted.gcm[1])
                                  ELSE Null
       /\ StepOf("getToken") =>
            \A env \in EnvsRead :
                GetToken(env) =>
                    /\ res'.ok
                    /\ res'.val = IF /\ Readable(tokenFile, env)
                                     /\ TokenFresh(Parse(tokenFile.encrypted.gcm[1]).expires, now)
                                  THEN Parse(tokenFile.encrypted.gcm[1])
                                  ELSE Null]_vars

\* a record with a changed field has been read and null was returned
C14_Witness ==
    /\ lastAct = "getCredentials"
    /\ res.ok /\ res.val = Null
    /\ credFile.kind = "enc" /\ ~Intact(credFile)

----------------------------------------------------------------------------
(* Properties of authentication around the data calls                      *)

\* the data request the running function sends: getConnections() (called
\* directly or by getPatientId()) asks for the connections, getGraphData()
\* for the graph
RunningKind(k) == IF InConnections(k) THEN "connections" ELSE "graph"

\* C15 as stated: a 401 on a data request makes the handler post one login
\* request; when that login is accepted, the next request is the retry of the
\* data request and no further login; when the retry is answered, the call
\* returns its payload.
C15_OneLoginOneRetry ==
    [][(call.fn # "none") =>
          /\ (call.req.kind \in {"connections", "graph"} /\ StepOf("data401"))
                => /\ call'.fn = call.fn /\ call'.req.kind = "login"
                   /\ call'.logins = call.logins + 1 /\ call'.datas = call.datas
          /\ (call.req.kind = "login" /\ call.at = "re" /\ StepOf("loginOk"))
                => /\ call'.fn = call.fn /\ call'.req.kind = RunningKind(call)
                   /\ call'.logins = call.logins /\ call'.datas = call.datas + 1
          /\ (call.retry /\ call.req.kind = RunningKind(call) /\ ~call.inner
                /\ StepOf("dataOk"))
                => /\ call'.fn = "none" /\ res'.ok
                   /\ res'.val.kind = call.req.kind]_vars

\* the stored token a call in environment env would take over: readable,
\* outside the expiry buffer and of the client's region
Restorable(env) ==
    /\ client.configManager
    /\ StoredToken(env) # Null
    /\ now < StoredToken(env).expires - EXPIRY_BUFFER
    /\ StoredToken(env).region = client.region

\* C16: a data call made without a valid session in memory, while the vault
\* holds a token of the client's region outside the expiry buffer, takes over
\* token, expiry, userId and accountId, leaves the vault as it is and sends
\* its data request without a login request; a call made without a valid
\* session posts a login request exactly when there is no such stored token.
C16_RestoreInsteadOfLogin ==
    [][StepOf("call") =>
          \A fn \in {"getConnections", "getGraphData"}, env \in EnvsRestore :
              (StartCall(fn, env) /\ ~isTokenValid(client, now)) =>
                  /\ Restorable(env) =>
                        /\ client'.jwtToken = StoredToken(env).token
                        /\ client'.tokenExpires = StoredToken(env).expires
                        /\ client'.userId = StoredToken(env).userId
                        /\ client'.accountId = StoredToken(env).accountId
                        /\ isTokenValid(client', now)
                        /\ tokenFile' = tokenFile
                        /\ call'.fn = fn /\ call'.logins = 0
                        /\ call'.req = DataReq(client', RunningKind(call'))
                  /\ ~Restorable(env) =>
                        /\ call'.fn = fn /\ call'.logins = 1
                        /\ call'.req = LoginReq(client')]_vars

\* a call has taken over the stored token and sent its data request
C16_Witness ==
    /\ lastAct = "call" /\ call.note = "restored"
    /\ call.logins = 0 /\ call.datas = 1
    /\ StoredToken(EnvOk) # Null /\ client.jwtToken = StoredToken(EnvOk).token

\* C17: a data call made while the session in memory is valid (token and
\* accountId set, now < tokenExpires - 300000) sends its data request with
\* that session: no login request, no session field changed, and the vault
\* and the platform store are as they were (the stored token is not read).
C17_ValidSessionIsUsedAsIs ==
    [][StepOf("call") =>
          \A fn \in {"getConnections", "getGraphData"}, env \in EnvsRestore :
              (StartCall(fn, env) /\ isTokenValid(client, now)) =>
                  /\ client' = client
                  /\ storeVars' = storeVars
                  /\ call'.fn = fn /\ call'.logins = 0 /\ call'.datas = 1
                  /\ call'.req = DataReq(client, RunningKind(call'))]_vars

\* a call went straight to its data request with a valid session, where taking
\* over the stored token would have changed the session (its base URL)
C17_Witness ==
    /\ lastAct = "call" /\ call.note = "valid"
    /\ call.logins = 0 /\ call.datas = 1
    /\ isTokenValid(client, now)
    /\ StoredToken(EnvOk) # Null
    /\ client.baseUrl # ServerOf(StoredToken(EnvOk).region)

\* the session fields as a token record, and the token record a vault holds
SessionRecord(c) ==
    [token |-> c.jwtToken, expires |-> c.tokenExpires, userId |-> c.userId,
     accountId |-> c.accountId, region |-> c.region]
TokenIn(S) ==
    IF S.tokenFile.kind = "enc" /\ decrypt(S, EnvOk, S.tokenFile).ok
    THEN Parse(decrypt(S, EnvOk, S.tokenFile).data)
    ELSE Null

\* C18: when a login request is answered with an auth ticket and the vault
\* write works, the vault that saveSession() leaves holds the session's token,
\* expiry, userId and accountId under the client's region; the vault still
\* holds that record after the step unless the caller went on to log in again.
C18_VaultHoldsSessionAfterLogin ==
    [][StepOf("loginOk") =>
          \A expires \in LoginExpires :
              (/\ call.fn # "none" /\ call.req.kind = "login" /\ client.configManager
               /\ LoginOk(EnvOk, "jwt1", expires, "u1")) =>
                  /\ client'.jwtToken = "jwt1" /\ client'.tokenExpires = expires * 1000
                  /\ client'.userId = "u1"
                  /\ TokenIn(saveSession(client', Store, EnvOk).S) = SessionRecord(client')
                  /\ (call'.fn = "none" \/ call'.req.kind # "login")
                        => StoredToken(EnvOk)' = SessionRecord(client')]_vars

\* a login after a redirect has been stored under the region the client was
\* sent to, which is not the configured one
C18_Witness ==
    /\ lastAct = "loginOk"
    /\ client.jwtToken # "" /\ client.region # cmConfig.region
    /\ StoredToken(EnvOk) = SessionRecord(client)

----------------------------------------------------------------------------
(* Properties of the account identifier and of the request headers         *)

\* C19: whenever the client holds both a userId and an accountId, the
\* accountId is the SHA-256 of that userId, whatever logins (as different
\* users), restores, 401 handling, updateConfig and clearSession came before.
C19_AccountIdIsHashOfUserId ==
    (client.userId # "" /\ client.accountId # Null)
        => client.accountId = [sha256 |-> client.userId]

\* a repeated login within one call has left the client with the second user
C19_Witness ==
    /\ lastAct = "loginOk" /\ call.logins >= 2
    /\ client.userId = "u2" /\ client.accountId = [sha256 |-> "u2"]

\* C20: a data request that is sent carries the session's token and accountId,
\* both set; when login() returned with an empty token, no data request is
\* sent: the function that goes on to createAuthenticatedClient() ends with
\* 'Not authenticated' (getGraphData() without a patient id and the 401
\* handlers run ensureAuthenticated() once more and log in again).
C20_RequestsCarryTokenAndAccountId ==
    [][/\ (/\ call'.fn # "none" /\ call'.req.kind \in {"connections", "graph"}
           /\ call'.datas = call.datas + 1)
            => /\ call'.req.token = client'.jwtToken /\ call'.req.token # ""
               /\ call'.req.accountId = client'.accountId /\ call'.req.accountId # Null
       /\ (/\ call.fn # "none" /\ StepOf("loginOk")
           /\ client'.jwtToken = "" \/ client'.accountId = Null)
            => /\ call'.fn = "none" \/ call'.req.kind = "login"
               /\ (call.at = "ea" /\ (InConnections(call) \/ client.patientId # ""))
                    => /\ call'.fn = "none"
                       /\ res' = Thrown("Not authenticated. Call login() first.")]_vars

\* a login left the session without a token and the call ended with the error
C20_Witness ==
    /\ lastAct = "loginOk" /\ call.fn = "none"
    /\ client.jwtToken = "" /\ client.accountId # Null
    /\ res = Thrown("Not authenticated. Call login() first.")

----------------------------------------------------------------------------
(* Properties of login(): redirects and failures                           *)

\* C21 as stated: one login() call cannot be made to issue login requests
\* without bound by a service that keeps redirecting.  The bound the
\* specification gives is one retry: when the login request in flight is
\* already the retry after a redirect and it is answered with a redirect again,
\* the call issues no further login request.
C21_RedirectRetriedOnce ==
    [][\A region \in {"us", "xx"} :
          (lastAct = "loginRedirect" /\ LoginRedirect(region))
              => call'.logins <= call.logins]_vars

\* the three rejections the claims name: bad credentials, an unsupported
\* version, a missing header
BadCredentials(e) == e.axios /\ e.status = 401
UnsupportedVersion(e) == e.axios /\ e.status = 403 /\ e.minimumVersion
HeaderMissing(e) ==
    e.axios /\ e.status = 403 /\ ~e.minimumVersion /\ e.message = "RequiredHeaderMissing"
Rejection(e) == BadCredentials(e) \/ UnsupportedVersion(e) \/ HeaderMissing(e)

\* C22 as stated: a login failure that is none of the three rejections (a
\* network error, a 5xx answer, an unusable 200 answer) reaches the caller as
\* the error the request failed with, unmodified.
C22_OtherFailuresUnmodified ==
    [][\A kind \in LoginFailureKinds :
          (LoginFails(kind) /\ ~Rejection(LoginFailure(kind)))
              => res' = Thrown(LoginFailure(kind).text)]_vars

\* C23: a failed login request ends the call with an error and no further
\* login request; the error is "Authentication failed" exactly for a 401,
\* "API requires minimum version" exactly for a 403 carrying a minimumVersion
\* and "Required header missing" exactly for a 403 RequiredHeaderMissing, so
\* the three rejections give three pairwise distinct errors.
C23_RejectionsDistinctAndRaised ==
    [][\A kind \in LoginFailureKinds :
          LoginFails(kind)
              => /\ ~res'.ok /\ call' = NoCall
                 /\ (res'.val.error = "Authentication failed. Please check your email and password.")
                        <=> BadCredentials(LoginFailure(kind))
                 /\ (res'.val.error = "API requires minimum version")
                        <=> UnsupportedVersion(LoginFailure(kind))
                 /\ (res'.val.error = "Required header missing")
                        <=> HeaderMissing(LoginFailure(kind))]_vars

\* the missing-header rejection has been raised: the call is over and no
\* session was stored
C23_Witness ==
    /\ lastAct = "loginFailed" /\ call = NoCall
    /\ res = Thrown("Required header missing")
    /\ tokenFile = Absent /\ client.jwtToken = ""

----------------------------------------------------------------------------
(* Properties of overlapping ensureAuthenticated() calls                   *)

\* the session a login with ticket a leaves in memory
SessionOf(a) ==
    [token |-> a.token, expires |-> a.expires * 1000, userId |-> a.userId,
     accountId |-> generateAccountId(a.userId)]
MemorySession ==
    [token |-> client.jwtToken, expires |-> client.tokenExpires, userId |-> client.userId,
     accountId |-> client.accountId]
BothLoggedIn ==
    \A i \in AuthCallIds : authCalls[i].pc = "done" /\ authCalls[i].ticket # Null

\* C24: once two overlapping ensureAuthenticated() calls have both logged in
\* and returned (with a working vault write), the token file decrypts to the
\* whole record of the login of one of the two calls, and token, expiry,
\* userId and accountId in memory are those of one single login.
C24_OverlappingLoginsLeaveOneSession ==
    BothLoggedIn =>
        /\ \E i \in AuthCallIds :
              /\ TokenIn(Store) # Null
              /\ [f \in {"token", "expires", "userId", "accountId"} |-> TokenIn(Store)[f]]
                    = SessionOf(authCalls[i].ticket)
              /\ TokenIn(Store).region \in {"EU", "US"}
        /\ \E i \in AuthCallIds : MemorySession = SessionOf(authCalls[i].ticket)

\* both calls found the session invalid and each made its own login; the
\* login answered last left its session in memory and its record in the vault
C24_Witness ==
    /\ BothLoggedIn
    /\ MemorySession = SessionOf(AuthTicket(2))
    /\ TokenIn(Store) # Null /\ TokenIn(Store).token = "jwt2"
    /\ kcAuth = generateAccountId("u2")

----------------------------------------------------------------------------
(* Where the password and the session token go                             *)

\* a settings file that shows a password or a token to whoever reads it
HoldsSecret(f) ==
    /\ f.kind = "json"
    /\ \/ Has(f.obj, "password") /\ f.obj.password # ""
       \/ Has(f.obj, "credentials") /\ Has(f.obj.credentials, "password")
       \/ Has(f.obj, "token")

\* C25 as stated: a step that writes a file leaves the password and the
\* session token in no file but an encrypted record (the settings files it
\* writes hold neither, the vault files it writes are encrypted records), and
\* a request that carries the password is a request to the login endpoint.
C25_SecretsLeaveOnlyEncrypted ==
    [][/\ cfgFile' # cfgFile => ~HoldsSecret(cfgFile')
       /\ legFile' # legFile => ~HoldsSecret(legFile')
       /\ credFile' # credFile => credFile'.kind \in {"enc", "absent"}
       /\ tokenFile' # tokenFile => tokenFile'.kind \in {"enc", "absent"}
       /\ (call'.req # Null /\ Has(call'.req, "password")) => call'.req.kind = "login"]_vars

----------------------------------------------------------------------------
(* Tampering, clearing and resetting the vault                             *)

TamperKinds == {"encrypted", "iv", "authTag", "salt"}

\* C26: once the encrypted, iv, authTag or salt field of a stored record has
\* been modified, decrypt() fails on the record for every reader, whether or
\* not the master key is cached, and getCredentials() / getToken() return
\* null: no plaintext, altered or not, comes out of it.
C26_TamperedRecordNeverDecrypts ==
    [][\A how \in TamperKinds :
          /\ Damage("cred", how) =>
                \A env \in EnvsRead :
                    (/\ ~decrypt(Store, env, credFile).ok
                     /\ getCredentials(Store, env).val = Null)'
          /\ Damage("token", how) =>
                \A env \in EnvsRead :
                    (/\ ~decrypt(Store, env, tokenFile).ok
                     /\ getToken(Store, env, now).val = Null)']_vars

\* a token record whose salt was replaced has been read: null came back
C26_Witness ==
    /\ lastAct = "getToken" /\ res.ok /\ res.val = Null
    /\ tokenFile.kind = "enc"
    /\ FromB64(tokenFile.salt) # tokenFile.encrypted.gcm[2].scrypt[2]

\* C27: clearToken() returns without an error whether the token file exists
\* or not and whether the auxiliary 'auth-token' entry is there, is absent or
\* cannot be deleted; afterwards there is no token file and getToken() returns
\* null for every reader.
C27_ClearTokenAlwaysCompletes ==
    [][\A env \in EnvsDel :
          ClearToken(env)
              => /\ res'.ok
                 /\ tokenFile' = Absent
                 /\ \A e \in EnvsRead : (getToken(Store, e, now).val = Null)'
                 /\ env.kcDel => kcAuth' = kcAuth]_vars

\* a stored token was cleared while the platform store refused the deletion:
\* the file is gone, the auxiliary entry is still there
C27_Witness ==
    /\ lastAct = "clearToken" /\ res.ok
    /\ tokenFile = Absent /\ kcAuth # Null

\* C28: when clearSession() has completed, no session field is left in memory,
\* getSessionStatus() reports neither authenticated nor valid, there is no
\* token file and getToken() returns null; the next getConnections() or
\* getGraphData() posts a login request before anything else.
C28_LogoutForcesFreshLogin ==
    [][/\ \A env \in EnvsDel :
            ClearSession(env)
                => /\ client'.jwtToken = "" /\ client'.accountId = Null
                   /\ client'.userId = "" /\ client'.patientId = ""
                   /\ ~getSessionStatus(client', now').authenticated
                   /\ ~getSessionStatus(client', now').tokenValid
                   /\ getSessionStatus(client', now').expiresAt = Null
                   /\ tokenFile' = Absent
                   /\ (getToken(Store, EnvOk, now).val = Null)'
       /\ \A fn \in {"getConnections", "getGraphData"} :
            (lastAct = "clearSession" /\ StartCall(fn, EnvOk))
                => /\ call'.req.kind = "login" /\ call'.logins = 1 /\ call'.datas = 0
                   /\ call'.note = ""]_vars

\* the call that follows a logout of a stored session (its auxiliary entry
\* could not be deleted) has posted a login request
C28_Witness ==
    /\ lastAct = "call" /\ call.req # Null /\ call.req.kind = "login"
    /\ kcAuth # Null /\ tokenFile = Absent
    /\ client.jwtToken = "" /\ client.tokenExpires = 0

\* C29: when clearAll() has completed, no master key is cached, and both
\* getCredentials() and getToken() return null; the next getEncryptionKey()
\* returns the key the platform store still holds (when its entries could
\* not be deleted and the store can be read), and otherwise creates a key and
\* stores it, or fails when the store cannot be written.
C29_ClearAllResetsVaultAndKey ==
    [][\A env \in EnvsDel :
          ClearAll(env)
              => /\ res'.ok
                 /\ encryptionKey' = NoKey
                 /\ credFile' = Absent /\ tokenFile' = Absent
                 /\ \A e \in EnvsRead :
                      (/\ getCredentials(Store, e).val = Null
                       /\ getToken(Store, e, now).val = Null
                       /\ IF kcKey # Null /\ ~e.kcGet
                          THEN getEncryptionKey(Store, e).key = FromHex(kcKey)
                          ELSE IF e.kcSet THEN ~getEncryptionKey(Store, e).ok
                          ELSE /\ getEncryptionKey(Store, e).ok
                               /\ getEncryptionKey(Store, e).key \in Keys
                               /\ getEncryptionKey(Store, e).S.kcKey
                                    = ToHex(getEncryptionKey(Store, e).key))'
                 /\ env.kcDel => kcKey' = kcKey]_vars

\* a vault with credentials was reset while the platform store refused the
\* deletion: the files are gone, the key is no longer cached but still stored
C29_Witness ==
    /\ lastAct = "clearAll" /\ res.ok
    /\ encryptionKey = NoKey /\ kcKey # Null
    /\ credFile = Absent /\ tokenFile = Absent

----------------------------------------------------------------------------
(* Migration with two legacy locations                                     *)

\* C30: when both locations hold an email/password pair and the writes of the
\* run succeed, migrateFromLegacy() stores the pair of <configDir>/config.json,
\* rewrites that file from its own settings alone, returns true and does not
\* go on to ~/.librelink-mcp/config.json: that file is left as it was and its
\* pair is not in the vault.
C30_FirstLocationWins ==
    [][/\ (/\ mig.i = 1 /\ HoldsPair(cfgFile) /\ HoldsPair(legFile)
           /\ MigrateCheck(EnvOk))
            => /\ mig'.pc = "rewrite" /\ mig'.i = 1
               /\ VaultPair' = LegacyPair(cfgFile)
               /\ UNCHANGED <<cfgFile, legFile>>
       /\ (/\ mig.i = 1 /\ HoldsPair(cfgFile) /\ HoldsPair(legFile)
           /\ MigrateRewrite(EnvOk))
            => /\ res' = Ret(Bool(TRUE)) /\ lastAct' = "migrateFromLegacy"
               /\ mig'.pc = "load"
               /\ VaultPair' = LegacyPair(cfgFile)
               /\ cfgFile' = Json(CleanConfig(cfgFile.obj))
               /\ legFile' = legFile]_vars

\* a run has returned true after the first location; the legacy location
\* still holds its own, different pair, which is not the one in the vault
C30_Witness ==
    /\ lastAct = "migrateFromLegacy" /\ res = Ret(Bool(TRUE))
    /\ mig.scrubbed = {1}
    /\ HoldsPair(legFile) /\ ~HoldsPair(cfgFile)
    /\ VaultPair # Null /\ VaultPair # LegacyPair(legFile)

----------------------------------------------------------------------------
(* The stored master key across reads of the platform store                *)

\* the record opens for an instance that reads the master key from the
\* platform store
OpensWithStoredKey(f) ==
    /\ kcKey # Null
    /\ Intact(f)
    /\ f.encrypted.gcm[2].scrypt[1] = FromHex(kcKey)

\* C31 as stated: a call that needs the master key (getCredentials() or
\* getToken(), through getEncryptionKey()) leaves the key of the platform
\* store in place: a credentials record that opens with the stored key before
\* the call still opens with the stored key after it, also when the read of
\* the platform store fails.
C31_StoredKeyNeverReplaced ==
    [][(lastAct' \in {"getCredentials", "getToken"} /\ OpensWithStoredKey(credFile))
          => OpensWithStoredKey(credFile)']_vars

\* the read of file f reaches getEncryptionKey() with no key cached, the read
\* of the platform store fails and the write of the new key works
Regenerates(env, f) ==
    /\ loadEncryptedFile(f) # Null
    /\ encryptionKey = NoKey
    /\ env.kcGet /\ ~env.kcSet

\* C31 amended: getEncryptionKey() replaces a master key that is present in the
\* platform store only when its read of the store fails (and its write works):
\* then the store holds a new key and the credentials record no longer opens
\* with it. In every other call (key cached, read answered, write refused)
\* the stored key stays and the record still opens with it.
C31_StoredKeyReplacedOnlyAfterFailedRead ==
    [][/\ (StepOf("getCredentials") /\ OpensWithStoredKey(credFile)) =>
            \A env \in EnvsRead :
                GetCredentials(env) =>
                    /\ kcKey' # Null
                    /\ OpensWithStoredKey(credFile)' <=> ~Regenerates(env, credFile)
       /\ (StepOf("getToken") /\ OpensWithStoredKey(credFile)) =>
            \A env \in EnvsRead :
                GetToken(env) =>
                    /\ kcKey' # Null
                    /\ OpensWithStoredKey(credFile)' <=> ~Regenerates(env, tokenFile)]_vars

\* a new instance has read the credentials with the key it fetched from the
\* platform store, and the record still opens with the stored key
C31_Witness ==
    /\ lastAct = "getCredentials" /\ res.after = "saveRestart"
    /\ res.val # Null
    /\ encryptionKey # NoKey /\ kcKey = ToHex(encryptionKey)
    /\ OpensWithStoredKey(credFile)

----------------------------------------------------------------------------
(* Tool calls overlapping a data call                                      *)

\* C32 as stated: the token vault never holds a token that was issued for
\* other credentials than the ones configure_credentials stored last (the
\* credentials of the configuration manager), also when a data call of the
\* replaced client was in flight while the credentials were replaced.
C32_NoTokenOfPreviousCredentials ==
    StoredToken(EnvOk) # Null
        => StoredToken(EnvOk).userId = TicketFor(cachedCredentials.email).userId

\* C33 as stated: no data call ends with the error of
\* createAuthenticatedClient(), which is only reached after the call's
\* ensureAuthenticated() has returned normally.
C33_AuthenticatedCallNeverUnauthenticated ==
    res # Thrown("Not authenticated. Call login() first.")

----------------------------------------------------------------------------
(* Credentials changed on a client that has a session                      *)

\* C34 as stated: every data request is sent with a token that was issued for
\* the credentials the client holds when the request is sent; in particular
\* the first request after updateConfig() changed the email and the password
\* carries a token of a login with the new credentials.
C34_RequestsUseTokenOfCurrentCredentials ==
    (call.fn # "none" /\ call.req.kind \in {"connections", "graph"})
        => call.req.token = TicketFor(client.email).token

----------------------------------------------------------------------------
(* The stored session across a restart                                     *)

\* C35 as stated: the first data call of a freshly constructed client, made
\* while the vault holds a token that a login has saved and that is outside
\* the expiry buffer, takes that token over and sends no login request, also
\* when the login that saved it had followed a regional redirect.
C35_SavedSessionSurvivesRestart ==
    [][(/\ lastAct = "start" /\ lastAct' = "call"
        /\ StoredToken(EnvOk) # Null
        /\ TokenFresh(StoredToken(EnvOk).expires, now))
          => /\ call'.logins = 0
             /\ client'.jwtToken = StoredToken(EnvOk).token]_vars

----------------------------------------------------------------------------
(* Migration when the credential vault cannot be written                   *)

\* saveCredentials() of the pair found at the location being checked throws
StoreFails(env) ==
    /\ mig.pc = "check" /\ HoldsPair(PathFile(mig.i))
    /\ ~saveCredentials(Store, env, LegacyPair(PathFile(mig.i))).ok

----------------------------------------------------------------------------
(* What getToken() leaves on disk                                          *)

\* C36 as stated: whenever getToken() returns null, no token file is left.
C36_NullMeansNoTokenFile ==
    [][(StepOf("getToken") /\ res'.val = Null) => tokenFile' = Absent]_vars

\* the same file content, whatever numbers its key, salt and iv carry
SameRecord(f, g) ==
    /\ f.kind = g.kind
    /\ f.kind = "enc" => /\ f.encrypted.gcm[1] = g.encrypted.gcm[1]
                         /\ Intact(f) <=> Intact(g)

\* C36 amended: getToken() removes the token file exactly when the record
\* decrypts and the token is expired or inside the expiry buffer. When it
\* returns null for another reason (no file, a file that does not parse, a
\* record that does not decrypt) it leaves the file as it found it, and so
\* it does when it returns the token.
C36_OnlyExpiredTokenIsRemoved ==
    [][StepOf("getToken") =>
          \A env \in EnvsRead :
              GetToken(env) =>
                  /\ res'.ok
                  /\ IF /\ Readable(tokenFile, env)
                        /\ ~TokenFresh(Parse(tokenFile.encrypted.gcm[1]).expires, now)
                     THEN res'.val = Null /\ tokenFile' = Absent
                     ELSE /\ SameRecord(tokenFile', tokenFile)
                          /\ res'.val = Null <=> ~Readable(tokenFile, env)]_vars

\* a token record with a changed field has been read: null was returned and
\* the file is still there
C36_Witness ==
    /\ lastAct = "getToken"
    /\ res.ok /\ res.val = Null
    /\ tokenFile.kind = "enc" /\ ~Intact(tokenFile)

----------------------------------------------------------------------------
(* hasCredentials() against getCredentials()                               *)

\* C38 as stated: in every state in which hasCredentials() returns true,
\* getCredentials() (with a working platform store) returns a pair.
C38_HasCredentialsMeansReadable ==
    hasCredentials(Store) => getCredentials(Store, EnvOk).val # Null

----------------------------------------------------------------------------
(* updateCredentials() and the token vault                                 *)

\* C39 as stated: when updateCredentials() has returned, the token vault is
\* empty and the new pair is what the cache holds and what a fresh instance
\* (nothing cached, working platform store) reads from the encrypted file.
C39_UpdateCredentialsLeavesVaultEmpty ==
    lastAct = "updateCredentials" =>
        /\ tokenFile = Absent
        /\ cachedCredentials # Null
        /\ getCredentials([Store EXCEPT !.encryptionKey = NoKey], EnvOk).val
               = cachedCredentials

----------------------------------------------------------------------------
(* The floor of clientVersion                                              *)

\* v is not below w: the first component in which they differ (a missing
\* component counts as 0) is the greater one in v
NotBelow(v, w) ==
    \A i \in 1..3 :
        (\A j \in 1..(i - 1) : VersionPart(v, j) = VersionPart(w, j))
            => VersionPart(v, i) >= VersionPart(w, i)

\* C40: the clientVersion ConfigManager holds in memory is never below 4.16.0,
\* whatever settings file was loaded, and after every updateClientVersion()
\* the clientVersion it has written to config.json is the one in memory and
\* not below 4.16.0 either.
C40_ClientVersionNeverBelowFloor ==
    /\ [](NotBelow(cmConfig.clientVersion, <<4, 16, 0>>))
    /\ [][StepOf("updateClientVersion") /\ res'.ok =>
              /\ cfgFile'.kind = "json"
              /\ cfgFile'.obj.clientVersion = cmConfig'.clientVersion
              /\ NotBelow(cfgFile'.obj.clientVersion, <<4, 16, 0>>)]_vars

\* updateClientVersion() was given 4.10.0, a version below the floor: 4.16.0
\* is what it kept in memory and wrote to config.json
C40_Witness ==
    /\ lastAct = "updateClientVersion"
    /\ res.ok
    /\ cmConfig.clientVersion = <<4, 16, 0>>
    /\ cfgFile = Json(cmConfig)

====
